---- MODULE Spec2Model ----
(***************************************************************************)
(* Session orchestration of the fitness coaching application: the safety   *)
(* governor and router (agents/supervisor.py), the workflow graph and its  *)
(* caller entry points (graph.py, backend/services/workout_service.py),    *)
(* the workers (agents/workers.py, agents/recovery_worker.py) and the      *)
(* finalize node (agents/finalize_workout.py).                             *)
(*                                                                         *)
(* Texts are sequences of one-character strings, so that lower(), strip(), *)
(* substring, prefix and suffix tests are computed as Python computes      *)
(* them.  Fatigue values are integers in hundredths (0.85 is 85).          *)
(***************************************************************************)
EXTENDS Integers, Sequences, FiniteSets, TLC

(***************************************************************************)
(* Bounds of the model                                                     *)
(***************************************************************************)
\* run_workout calls on the thread
MaxRuns ==
  2

\* sets logged and not yet cleared
MaxSets ==
  1

\* days that pass after a run
MaxTicks ==
  1

(***************************************************************************)
(* Text primitives (Python str methods used by the source)                 *)
(***************************************************************************)
UPPER ==
  <<"A","B","C","D","E","F","G","H","I","J","K","L","M",
    "N","O","P","Q","R","S","T","U","V","W","X","Y","Z">>

LOWER ==
  <<"a","b","c","d","e","f","g","h","i","j","k","l","m",
    "n","o","p","q","r","s","t","u","v","w","x","y","z">>

LowerChar(c) ==
  IF \E i \in 1..26 : UPPER[i] = c
  THEN LOWER[CHOOSE i \in 1..26 : UPPER[i] = c]
  ELSE c

Lower(t) ==
  [i \in 1..Len(t) |-> LowerChar(t[i])]

IsSpace(c) ==
  c \in {" ", "\t", "\n"}

RECURSIVE LStrip(_)
LStrip(t) ==
  IF t # <<>> /\ IsSpace(Head(t)) THEN LStrip(Tail(t)) ELSE t

RECURSIVE RStrip(_)
RStrip(t) ==
  IF t # <<>> /\ IsSpace(t[Len(t)]) THEN RStrip(SubSeq(t, 1, Len(t) - 1)) ELSE t

Strip(t) ==
  RStrip(LStrip(t))

\* Python: kw in text
Contains(text, kw) ==
  \E i \in 0..(Len(text) - Len(kw)) : SubSeq(text, i + 1, i + Len(kw)) = kw

\* Python: text.startswith(kw)
StartsWith(text, kw) ==
  Len(kw) <= Len(text) /\ SubSeq(text, 1, Len(kw)) = kw

\* Python: text.endswith(kw)
EndsWith(text, kw) ==
  Len(kw) <= Len(text) /\ SubSeq(text, Len(text) - Len(kw) + 1, Len(text)) = kw

\* Python: any(kw in text for kw in kws)
ContainsAny(text, kws) ==
  \E k \in kws : Contains(text, k)

(***************************************************************************)
(* agents/supervisor.py: keyword heuristics                                *)
(***************************************************************************)
COMPLAINT_KEYWORDS ==
  { <<"s","o","r","e">>, <<"t","i","g","h","t">>, <<"h","u","r","t">>, <<"p","a","i","n">>, <<"t","i","r","e","d">>, <<"f","a","t","i","g","u","e","d">>,
    <<"e","x","h","a","u","s","t","e","d">>, <<"s","t","i","f","f">>, <<"a","c","h","i","n","g">>, <<"b","u","r","n">>, <<"f","r","i","e","d">>, <<"h","e","a","v","y">>,
    <<"b","e","a","t"," ","u","p">>, <<"c","r","a","m","p">>, <<"s","t","r","a","i","n","e","d">>, <<"i","n","j","u","r","e","d">>, <<"u","n","c","o","m","f","o","r","t","a","b","l","e">>,
    <<"n","u","m","b">>, <<"t","i","n","g","l","i","n","g">>, <<"s","w","o","l","l","e","n">>, <<"c","a","n","'","t">>, <<"c","a","n","n","o","t">>,
    <<"s","t","r","u","g","g","l","i","n","g">> }

PERSONA_SWITCH_KEYWORDS ==
  { <<"y","o","g","a">>, <<"h","i","i","t">>, <<"k","i","c","k","b","o","x","i","n","g">>, <<"s","t","r","e","n","g","t","h">>, <<"i","r","o","n">>, <<"c","a","r","d","i","o">>,
    <<"m","o","b","i","l","i","t","y">>, <<"r","e","c","o","v","e","r","y">>, <<"r","e","s","t"," ","d","a","y">>, <<"s","t","r","e","t","c","h">>, <<"b","o","x","i","n","g">>,
    <<"w","e","i","g","h","t","s">>, <<"r","u","n">>, <<"i","n","t","e","r","v","a","l">>, <<"m","e","d","i","t","a","t","i","o","n">>, <<"f","l","o","w">> }

QA_STARTERS ==
  { <<"h","o","w">>, <<"w","h","a","t">>, <<"w","h","y">>, <<"w","h","e","n">>, <<"w","h","o">>, <<"w","h","e","r","e">>, <<"w","h","i","c","h">>,
    <<"t","e","l","l"," ","m","e">>, <<"e","x","p","l","a","i","n">>, <<"c","a","n"," ","y","o","u">>, <<"c","o","u","l","d"," ","y","o","u">>, <<"s","h","o","u","l","d"," ","i">>,
    <<"i","s"," ","i","t">>, <<"a","r","e"," ","t","h","e","r","e">>, <<"d","o"," ","i">>, <<"d","o","e","s">>, <<"d","i","d">>, <<"w","i","l","l"," ","i">>,
    <<"w","o","u","l","d">>, <<"a","d","v","i","c","e">>, <<"h","e","l","p"," ","m","e"," ","u","n","d","e","r","s","t","a","n","d">> }

is_question_first(user_message) ==
  LET text == Strip(Lower(user_message)) IN
    IF Strip(user_message) = <<>> THEN FALSE
    ELSE IF EndsWith(text, <<"?">>) THEN TRUE
    ELSE IF \E kw \in QA_STARTERS : StartsWith(text, kw) THEN TRUE
    ELSE FALSE

is_question(user_message) ==
  LET text == Strip(Lower(user_message)) IN
    IF Strip(user_message) = <<>> THEN FALSE
    ELSE IF ContainsAny(text, COMPLAINT_KEYWORDS) THEN FALSE
    ELSE IF ContainsAny(text, PERSONA_SWITCH_KEYWORDS) THEN FALSE
    ELSE IF EndsWith(text, <<"?">>) THEN TRUE
    ELSE IF \E kw \in QA_STARTERS : StartsWith(text, kw) THEN TRUE
    ELSE FALSE

needs_llm_reasoning(user_message) ==
  LET text == Strip(Lower(user_message)) IN
    IF Strip(user_message) = <<>> THEN FALSE
    ELSE IF ContainsAny(text, COMPLAINT_KEYWORDS) THEN TRUE
    ELSE IF ContainsAny(text, PERSONA_SWITCH_KEYWORDS) THEN TRUE
    ELSE FALSE

(***************************************************************************)
(* Vocabulary                                                              *)
(***************************************************************************)
Personas ==
  {"iron", "yoga", "hiit", "kickboxing"}

PersonaWorkers ==
  {"iron_worker", "yoga_worker", "hiit_worker", "kb_worker"}

\* SupervisorDecision.next_node: Literal[...]
DecisionNodes ==
  PersonaWorkers \cup {"recovery_worker", "qa_worker", "end"}

persona_to_worker(p) ==
  CASE p = "iron" -> "iron_worker"
    [] p = "yoga" -> "yoga_worker"
    [] p = "hiit" -> "hiit_worker"
    [] p = "kickboxing" -> "kb_worker"

\* the fatigue_scores key written as the text t
GroupKey(t) ==
  CASE t = <<"l","e","g","s">> -> "legs"
    [] t = <<"p","u","s","h">> -> "push"
    [] t = <<"p","u","l","l">> -> "pull"
    [] t = <<"s","p","i","n","e">> -> "spine"
    [] t = <<"h","i","p","s">> -> "hips"
    [] t = <<"s","h","o","u","l","d","e","r","s">> -> "shoulders"
    [] t = <<"c","a","r","d","i","o">> -> "cardio"
    [] t = <<"c","n","s">> -> "cns"
    [] t = <<"c","o","o","r","d","i","n","a","t","i","o","n">> -> "coordination"
    [] t = <<"s","p","e","e","d">> -> "speed"
    [] t = <<"e","n","d","u","r","a","n","c","e">> -> "endurance"
    [] t = <<"g","e","n","e","r","a","l">> -> "general"

\* dict.get(k, 0.0) on a fatigue map
Get(f, k) ==
  IF k \in DOMAIN f THEN f[k] ELSE 0

\* {**f, k: v}
Put(f, k, v) ==
  [x \in (DOMAIN f) \cup {k} |-> IF x = k THEN v ELSE f[x]]

\* {**a, **b}
Merge(a, b) ==
  [x \in (DOMAIN a) \cup (DOMAIN b) |-> IF x \in DOMAIN b THEN b[x] ELSE a[x]]

Min(a, b) ==
  IF a <= b THEN a ELSE b

\* max(fatigue_scores.values()) if fatigue_scores else 0.0
MaxFatigue(f) ==
  IF DOMAIN f = {} THEN 0
  ELSE CHOOSE m \in {f[k] : k \in DOMAIN f} : \A k \in DOMAIN f : f[k] <= m

EmptyMap ==
  [x \in {} |-> 0]

\* Optional values are sets with at most one element: {} is None / key absent.
Some(o) ==
  CHOOSE x \in o : TRUE

\* state.get("subscribed_personas") or []
OrEmpty(o) ==
  IF o = {} THEN <<>> ELSE Some(o)

InSeq(x, s) ==
  \E i \in 1..Len(s) : s[i] = x


(***************************************************************************)
(* Plans returned by the external generators (pydantic models of           *)
(* agents/workers.py and agents/recovery_worker.py).  The state holds the  *)
(* name of a plan; WorkoutDict gives its model_dump dict.  list_key is the *)
(* key holding the item list; a focus field the plan type does not have is *)
(* the empty text.                                                         *)
(***************************************************************************)
\* daily_workout = None
NoPlan ==
  "none"

Plan(kind, fa, fs, fat, key, items) ==
  [kind |-> kind, focus_area |-> fa, focus_system |-> fs,
   focus_attribute |-> fat, list_key |-> key, items |-> items]

WorkoutDict(p) ==
  CASE p = "strength_legs" ->
         Plan("strength", <<"L","e","g","s">>, <<>>, <<>>, "exercises",
              << <<"B","a","c","k"," ","S","q","u","a","t">>, <<"W","a","l","k","i","n","g"," ","L","u","n","g","e">> >>)
    [] p = "yoga_hips" ->
         Plan("yoga", <<"H","i","p","s"," ","a","n","d"," ","s","p","i","n","e">>, <<>>, <<>>, "poses",
              << <<"P","i","g","e","o","n"," ","P","o","s","e">> >>)
    [] p = "hiit_cardio" ->
         Plan("hiit", <<>>, <<"C","a","r","d","i","o">>, <<>>, "exercises",
              << <<"B","u","r","p","e","e">>, <<"B","u","r","p","e","e">> >>)
    [] p = "kb_speed" ->
         Plan("kickboxing", <<>>, <<>>, <<"S","p","e","e","d">>, "exercises",
              << <<"J","a","b"," ","C","r","o","s","s">> >>)
    [] p = "recovery_walk" ->
         Plan("recovery", <<>>, <<>>, <<>>, "activities", << <<"W","a","l","k">> >>)
    [] p = "strength_full" ->
         Plan("strength", <<"F","u","l","l"," ","B","o","d","y">>, <<>>, <<>>, "exercises",
              << <<"T","h","r","u","s","t","e","r">> >>)

\* RecoveryPlan values the recovery agent may return
RecoveryPlans ==
  {"recovery_walk"}

\* plans the agent of each persona worker may return
PlansOf(worker) ==
  CASE worker = "iron_worker" -> {"strength_legs"}
    [] worker = "yoga_worker" -> {"yoga_hips"}
    [] worker = "hiit_worker" -> {"hiit_cardio"}
    [] worker = "kb_worker" -> {"kb_speed"}

PersonaPlans ==
  UNION { PlansOf(w) : w \in PersonaWorkers }

(***************************************************************************)
(* Caller inputs                                                           *)
(***************************************************************************)
\* content of the user message passed to run_workout (messages=[{user, m}])
Content(m) ==
  CASE m = "empty" -> <<>>
    [] m = "blank" -> <<" "," ">>
    [] m = "leg_workout" -> <<"I"," ","w","a","n","t"," ","a"," ","l","e","g"," ","w","o","r","k","o","u","t">>
    [] m = "question" -> <<"H","o","w"," ","m","a","n","y"," ","w","o","r","k","o","u","t","s"," ","a","r","e"," ","l","e","f","t","?">>
    [] m = "starter" -> <<"w","h","a","t"," ","s","h","o","u","l","d"," ","m","y"," ","w","e","e","k"," ","l","o","o","k"," ","l","i","k","e">>
    [] m = "complaint" -> <<"m","y"," ","l","e","g","s"," ","a","r","e"," ","s","o","r","e">>
    [] m = "switch" -> <<"I"," ","w","a","n","t"," ","t","o"," ","d","o"," ","y","o","g","a"," ","t","o","d","a","y">>
    [] m = "switch_question" -> <<"C","a","n"," ","I"," ","d","o"," ","y","o","g","a"," ","t","o","d","a","y","?">>
    [] m = "complaint_starter" -> <<"W","h","y"," ","a","r","e"," ","m","y"," ","l","e","g","s"," ","s","o","r","e">>

\* every user message of the model (the state holds the name of a message)
UserMessages ==
  { "empty", "blank", "leg_workout", "question", "starter", "complaint",
    "switch", "switch_question", "complaint_starter" }

\* persona argument
CallerPersonas ==
  {"iron", "yoga"}

\* messages argument of run_workout: one user message
MessageLists ==
  { <<m>> : m \in {"leg_workout", "question", "complaint"} }

\* fatigue_scores argument
CallerFatigue ==
  { EmptyMap,
    [x \in {"legs"} |-> 85] }

\* max_workouts_per_week argument ({} is None)
\* (the weekly cap is reached after one session)
CallerMaxWorkouts ==
  { {2} }

\* subscribed_personas argument ({} is None)
CallerSubscribed ==
  { {}, { <<"yoga", "hiit">> } }

\* fatigue_updates of a SupervisorDecision
NoUpdates ==
  <<>>

CnsUpdate ==
  << [muscle_group |-> "cns", fatigue_value |-> 90] >>

Decision(next_node, selected_persona, fatigue_updates) ==
  [next_node |-> next_node, selected_persona |-> selected_persona,
   fatigue_updates |-> fatigue_updates]

\* values the external decision call can return (SupervisorDecision): every
\* next_node, personas inside and outside a subscription, a worker that does
\* not match the persona, and complaints mapped to a score over the threshold
Decisions ==
  { Decision(n, "iron", NoUpdates) : n \in DecisionNodes }
    \cup { Decision("hiit_worker", "hiit", NoUpdates),
           Decision("iron_worker", "yoga", NoUpdates),
           Decision("iron_worker", "iron", CnsUpdate),
           Decision("recovery_worker", "yoga", CnsUpdate) }

(***************************************************************************)
(* State                                                                   *)
(***************************************************************************)
VARIABLES
  st,                       \* checkpointed FitnessState of the user thread
  hasCheckpoint,            \* a checkpoint exists for the thread
  pc,                       \* node the thread runs next ("END": none)
  running,                  \* an app.invoke is in progress
  stagesRun,                \* nodes executed by the current / last invoke
  calls,                    \* external agents called by that invoke
  atDispatch,               \* fatigue, history, counter when the gate dispatched
  atCall,                   \* stored state when run_workout was called, if any
  record,                   \* whether the stored checkpoint can be loaded
  deleted,                  \* history entries delete_user removed in a repair
  aimed,                    \* items of the current plan log_set was called for
  pending,                  \* active_logs computed by log_set calls in flight
  runs,                     \* number of run_workout calls so far
  ENABLE_DECAY,             \* feature_flags.ENABLE_DECAY
  ENABLE_HISTORY_ANALYZER   \* feature_flags.ENABLE_HISTORY_ANALYZER

vars ==
  << st, hasCheckpoint, pc, running, stagesRun, calls, atDispatch, atCall,
     record, deleted, aimed, pending, runs, ENABLE_DECAY, ENABLE_HISTORY_ANALYZER >>

flags ==
  << atCall, record, deleted, pending, runs, ENABLE_DECAY,
     ENABLE_HISTORY_ANALYZER >>

\* time.time() in hours; timestamps are kept relative to the current time
now ==
  0

ENABLE_PERSONA_RECOMMENDER ==
  TRUE

\* initial_state of run_workout before any merge with a stored state
\* absent holds the keys missing from the state dict; a missing
\* fatigue_scores is held as the empty map, the default of every
\* state.get("fatigue_scores", {}), and a missing max_workouts_per_week as 0
FreshState ==
  [ selected_persona |-> "iron",
    next_node |-> "",
    is_onboarded |-> TRUE,
    subscribed_personas |-> {},
    fatigue_scores |-> EmptyMap,
    last_session_timestamp |-> 0,
    workout_history |-> <<>>,
    max_workouts_per_week |-> 4,
    workouts_completed_this_week |-> 0,
    fatigue_threshold |-> 80,
    messages |-> <<>>,
    daily_workout |-> NoPlan,
    active_logs |-> <<>>,
    is_working_out |-> FALSE,
    absent |-> {} ]

Snapshot(s) ==
  [ fatigue_scores |-> s.fatigue_scores,
    workout_history |-> s.workout_history,
    workouts_completed_this_week |-> s.workouts_completed_this_week ]

\* the part of a stored state a caller of run_workout can observe
Stored(s) ==
  [ daily_workout |-> s.daily_workout,
    is_working_out |-> s.is_working_out,
    fatigue_scores |-> s.fatigue_scores,
    workout_history |-> s.workout_history,
    workouts_completed_this_week |-> s.workouts_completed_this_week,
    messages |-> s.messages ]

Init ==
  /\ st = FreshState
  /\ hasCheckpoint = FALSE
  /\ pc = "END"
  /\ running = FALSE
  /\ stagesRun = <<>>
  /\ calls = {}
  /\ atDispatch = Snapshot(FreshState)
  /\ atCall = {}
  /\ record = "ok"
  /\ deleted = 0
  /\ aimed = {}
  /\ pending = <<>>
  /\ runs = 0
  /\ ENABLE_DECAY \in BOOLEAN
  /\ ENABLE_HISTORY_ANALYZER \in BOOLEAN

(***************************************************************************)
(* graph.py: entry and flag edges                                          *)
(***************************************************************************)
check_onboarding(s) ==
  IF ~ENABLE_PERSONA_RECOMMENDER THEN "supervisor"
  ELSE IF s.is_onboarded THEN "supervisor"
  ELSE "recommender"

after_supervisor ==
  IF ENABLE_DECAY THEN "decay"
  ELSE IF ENABLE_HISTORY_ANALYZER THEN "history_analysis"
  ELSE "pre_route"

after_decay ==
  IF ENABLE_HISTORY_ANALYZER THEN "history_analysis" ELSE "pre_route"

(***************************************************************************)
(* graph.py: run_workout (advanceSession)                                  *)
(***************************************************************************)
merged_daily_workout_kept(existing) ==
  existing

\* the stored daily_workout is cleared when a new request starts
merged_daily_workout(existing) ==
  NoPlan

\* initial_state after the merge with the stored state, if any
MergedInitialState(persona, fatigue_scores, messages, max_arg, sub_arg) ==
  LET fresh == [FreshState EXCEPT
                  !.selected_persona = persona,
                  !.fatigue_scores = fatigue_scores,
                  !.last_session_timestamp = now,
                  !.max_workouts_per_week =
                      IF max_arg = {} THEN 4 ELSE Some(max_arg),
                  !.messages = messages,
                  !.subscribed_personas = sub_arg]
  IN IF ~hasCheckpoint THEN fresh
     ELSE [fresh EXCEPT
             !.workout_history = st.workout_history,
             !.fatigue_scores =
                 IF DOMAIN st.fatigue_scores # {}
                 THEN Merge(st.fatigue_scores, fatigue_scores)
                 ELSE fatigue_scores,
             !.max_workouts_per_week =
                 IF st.max_workouts_per_week # 0
                 THEN st.max_workouts_per_week ELSE @,
             !.workouts_completed_this_week = st.workouts_completed_this_week,
             !.fatigue_threshold =
                 IF st.fatigue_threshold # 0 THEN st.fatigue_threshold ELSE @,
             !.active_logs = st.active_logs,
             !.daily_workout = merged_daily_workout(st.daily_workout),
             !.is_onboarded = st.is_onboarded,
             !.subscribed_personas =
                 IF st.subscribed_personas # {}
                 THEN st.subscribed_personas ELSE sub_arg]

\* fresh_state of the retry after a deleted checkpoint: no merge
fresh_state(persona, fatigue_scores, messages) ==
  [FreshState EXCEPT
     !.selected_persona = persona,
     !.fatigue_scores = fatigue_scores,
     !.last_session_timestamp = now,
     !.messages = messages]

\* arguments that reach the state: a stored max_workouts_per_week or
\* subscribed_personas replaces the argument, whatever its value
MaxWorkoutsArgs ==
  IF hasCheckpoint /\ st.max_workouts_per_week # 0
  THEN { {} } ELSE CallerMaxWorkouts

SubscribedArgs ==
  IF hasCheckpoint /\ st.subscribed_personas # {}
  THEN { {} } ELSE CallerSubscribed

\* run_workout builds the state and calls app.invoke(initial_state, config):
\* the input overwrites the thread's channels and the graph starts at entry.
CallRunWorkoutWith(observed, fatigue_args) ==
  /\ ~running
  /\ record = "ok"
  /\ runs < MaxRuns
  /\ runs' = runs + 1
  /\ \E persona \in CallerPersonas, f \in fatigue_args, msgs \in MessageLists,
        max_arg \in MaxWorkoutsArgs, sub_arg \in SubscribedArgs :
       LET s == MergedInitialState(persona, f, msgs, max_arg, sub_arg) IN
         /\ st' = s
         /\ pc' = check_onboarding(s)
         /\ atDispatch' = Snapshot(s)
  /\ atCall' = IF observed /\ hasCheckpoint THEN {Stored(st)} ELSE {}
  /\ aimed' = {}
  /\ hasCheckpoint' = TRUE
  /\ running' = TRUE
  /\ stagesRun' = <<>>
  /\ calls' = {}
  /\ UNCHANGED << record, deleted, pending, ENABLE_DECAY,
                  ENABLE_HISTORY_ANALYZER >>

CallRunWorkout(observed) ==
  CallRunWorkoutWith(observed, CallerFatigue)

RunWorkout ==
  CallRunWorkout(FALSE)

\* fatigue_scores arguments outside 0.0..1.0 (main.py --fatigue "legs:1.5")
OutOfRangeFatigue ==
  { [x \in {"legs"} |-> 150],
    [x \in {"legs"} |-> -20] }

\* run_workout stores the fatigue_scores argument as it is
RunWorkoutOutOfRange ==
  CallRunWorkoutWith(FALSE, OutOfRangeFatigue)

\* the same call, with the stored state it found recorded in atCall
ObservedRunWorkout ==
  CallRunWorkout(TRUE)

(***************************************************************************)
(* agents/recommender.py: persona_recommendation_node                      *)
(***************************************************************************)
\* keys of CREATOR_TO_PERSONA, in order: the available creators
AvailableCreators ==
  << "coach_iron", "zenflow_yoga", "inferno_hiit", "strikeforce_kb" >>

\* CREATOR_TO_PERSONA.get(c, "iron")
creator_to_persona(c) ==
  CASE c = "zenflow_yoga" -> "yoga"
    [] c = "inferno_hiit" -> "hiit"
    [] c = "strikeforce_kb" -> "kickboxing"
    [] OTHER -> "iron"

PersonaKeys ==
  { creator_to_persona(AvailableCreators[i]) : i \in 1..Len(AvailableCreators) }

\* next(c for c, p in CREATOR_TO_PERSONA.items() if p == s)
creator_of(p) ==
  AvailableCreators[CHOOSE i \in 1..Len(AvailableCreators) :
                      /\ creator_to_persona(AvailableCreators[i]) = p
                      /\ \A j \in 1..(i - 1) :
                           creator_to_persona(AvailableCreators[j]) # p]

\* the loop over suggested_list[:2]
RECURSIVE normalize_suggestions(_, _)
normalize_suggestions(suggested, normalized) ==
  IF suggested = <<>> THEN normalized
  ELSE
    LET raw == Head(suggested)
        s == IF raw \in PersonaKeys THEN creator_of(raw)
             ELSE IF ~InSeq(raw, AvailableCreators) THEN AvailableCreators[1]
             ELSE raw
    IN normalize_suggestions(
         Tail(suggested),
         IF s # "" /\ ~InSeq(s, normalized)
         THEN Append(normalized, s) ELSE normalized)

\* persona_keys of the data the recommender agent returned
persona_keys(suggested_personas) ==
  LET first_two == SubSeq(suggested_personas, 1,
                          Min(2, Len(suggested_personas)))
      found == normalize_suggestions(first_two, <<>>)
      normalized == IF found = <<>> THEN << AvailableCreators[1] >> ELSE found
  IN [i \in 1..Len(normalized) |-> creator_to_persona(normalized[i])]

\* Recommendation.suggested_personas of the external call (1 or 2 strings)
Suggestions ==
  { << "inferno_hiit" >>,
    << "yoga", "zenflow_yoga" >>,
    << "pilates_pro" >>,
    << "strikeforce_kb", "coach_iron" >> }

recommender_update_unmarked(s, keys) ==
  [s EXCEPT !.subscribed_personas = {keys},
            !.selected_persona = keys[1]]

\* the dict the recommender node returns, applied to the state
recommender_update(s, keys) ==
  [s EXCEPT !.subscribed_personas = {keys},
            !.is_onboarded = TRUE,
            !.selected_persona = keys[1]]

Recommender ==
  /\ running
  /\ pc = "recommender"
  /\ \E suggested \in Suggestions :
       st' = recommender_update(st, persona_keys(suggested))
  /\ calls' = calls \cup {"recommender_agent"}
  /\ stagesRun' = Append(stagesRun, "recommender")
  /\ pc' = "supervisor"
  /\ UNCHANGED << hasCheckpoint, running, atDispatch, aimed, flags >>

(***************************************************************************)
(* agents/supervisor.py: supervisor_node                                   *)
(***************************************************************************)
allowed_workers(subscribed) ==
  IF subscribed # <<>>
  THEN { persona_to_worker(subscribed[i]) : i \in 1..Len(subscribed) }
  ELSE PersonaWorkers

\* _pick_from_subscribed(): <<worker, persona>>
pick_from_subscribed_first(current_persona, subscribed) ==
  IF subscribed # <<>>
  THEN << persona_to_worker(subscribed[1]), subscribed[1] >>
  ELSE << persona_to_worker(current_persona), current_persona >>

pick_from_subscribed(current_persona, subscribed) ==
  IF InSeq(current_persona, subscribed)
     /\ persona_to_worker(current_persona) \in allowed_workers(subscribed)
  THEN << persona_to_worker(current_persona), current_persona >>
  ELSE IF subscribed # <<>>
  THEN << persona_to_worker(subscribed[1]), subscribed[1] >>
  ELSE << persona_to_worker(current_persona), current_persona >>

\* last user message of the conversation ("" when there is none)
last_user_message(messages) ==
  IF messages = <<>> THEN <<>> ELSE Content(messages[Len(messages)])

RECURSIVE apply_fatigue_updates(_, _)
apply_fatigue_updates(f, updates) ==
  IF updates = <<>> THEN f
  ELSE apply_fatigue_updates(
         Put(f, Head(updates).muscle_group, Head(updates).fatigue_value),
         Tail(updates))

max_workouts_unlimited(s) ==
  IF "max_workouts_per_week" \in s.absent
  THEN s.workouts_completed_this_week + 1
  ELSE s.max_workouts_per_week

\* state.get("max_workouts_per_week", 4)
max_workouts(s) ==
  IF "max_workouts_per_week" \in s.absent
  THEN 4
  ELSE s.max_workouts_per_week

frequency_block_strict(s) ==
  s.workouts_completed_this_week > max_workouts(s)

\* SAFETY OVERRIDE 1: the weekly limit is reached
frequency_block(s) ==
  s.workouts_completed_this_week >= max_workouts(s)

fatigue_override_or_equal(s) ==
  MaxFatigue(s.fatigue_scores) >= s.fatigue_threshold

\* SAFETY OVERRIDE 2: some fatigue score exceeds the threshold
fatigue_override(s) ==
  MaxFatigue(s.fatigue_scores) > s.fatigue_threshold

\* the safety overrides and the fast paths decide without the external call
needs_decision_call(s) ==
  /\ ~frequency_block(s)
  /\ ~fatigue_override(s)
  /\ s.messages # <<>>
  /\ ~is_question(last_user_message(s.messages))
  /\ needs_llm_reasoning(last_user_message(s.messages))

\* the dict supervisor_node returns, completed with the keys it leaves alone;
\* decision is the SupervisorDecision of the external call (reasoning path)
supervisor_node(s, decision) ==
  LET current_persona == s.selected_persona
      subscribed == OrEmpty(s.subscribed_personas)
      picked == pick_from_subscribed(current_persona, subscribed)
      keep(next) == [next_node |-> next, selected_persona |-> current_persona,
                     fatigue_scores |-> s.fatigue_scores]
  IN
    IF frequency_block(s)
    THEN keep("end")
    ELSE IF fatigue_override(s)
    THEN keep("recovery_worker")
    ELSE IF s.messages = <<>>
    THEN [next_node |-> picked[1], selected_persona |-> picked[2],
          fatigue_scores |-> s.fatigue_scores]
    ELSE IF is_question(last_user_message(s.messages))
    THEN keep("qa_worker")
    ELSE IF ~needs_llm_reasoning(last_user_message(s.messages))
    THEN [next_node |-> picked[1], selected_persona |-> picked[2],
          fatigue_scores |-> s.fatigue_scores]
    ELSE
      LET violates == subscribed # <<>>
                        /\ ~InSeq(decision.selected_persona, subscribed)
          chosen_persona == IF violates THEN subscribed[1]
                            ELSE decision.selected_persona
          next_worker == IF violates THEN persona_to_worker(subscribed[1])
                         ELSE decision.next_node
      IN [next_node |-> next_worker, selected_persona |-> chosen_persona,
          fatigue_scores |->
            apply_fatigue_updates(s.fatigue_scores, decision.fatigue_updates)]

NoDecision ==
  [next_node |-> "end", selected_persona |-> "iron", fatigue_updates |-> <<>>]

Supervisor ==
  /\ running
  /\ pc = "supervisor"
  /\ \E d \in (IF needs_decision_call(st) THEN Decisions ELSE {NoDecision}) :
       LET r == supervisor_node(st, d) IN
         st' = [st EXCEPT !.next_node = r.next_node,
                          !.selected_persona = r.selected_persona,
                          !.fatigue_scores = r.fatigue_scores,
                          !.absent = @ \ {"fatigue_scores"}]
  /\ calls' = IF needs_decision_call(st)
              THEN calls \cup {"supervisor_agent"} ELSE calls
  /\ stagesRun' = Append(stagesRun, "supervisor")
  /\ pc' = after_supervisor
  /\ UNCHANGED << hasCheckpoint, running, atDispatch,
                  aimed, flags >>


(***************************************************************************)
(* agents/decay.py: decay_node                                             *)
(***************************************************************************)
SCALE ==
  1000000

\* decay_factor ** hours_passed in fixed point (SCALE is 1.0)
Pow97_linear(h) ==
  IF h <= 0 THEN SCALE ELSE SCALE - 30000 * h

RECURSIVE Pow97(_)
Pow97(h) ==
  IF h <= 0 THEN SCALE ELSE (Pow97(h - 1) * 97) \div 100

decay_scores(f, hours_passed) ==
  [k \in DOMAIN f |->
     LET new_fatigue == (f[k] * Pow97(hours_passed)) \div SCALE
     IN IF new_fatigue < 0 THEN 0 ELSE new_fatigue]

Decay ==
  /\ running
  /\ pc = "decay"
  /\ st' = [st EXCEPT
              !.fatigue_scores =
                  decay_scores(st.fatigue_scores,
                               now - st.last_session_timestamp),
              !.last_session_timestamp = now,
              !.absent = @ \ {"fatigue_scores"}]
  /\ stagesRun' = Append(stagesRun, "decay")
  /\ pc' = after_decay
  /\ UNCHANGED << hasCheckpoint, running, calls, atDispatch, aimed, flags >>

(***************************************************************************)
(* agents/history_analyzer.py: history_analysis_node                       *)
(***************************************************************************)
\* updated[k] = min(1.0, updated.get(k, 0.0) + delta)
AddCapped(f, k, delta) ==
  Put(f, k, Min(100, Get(f, k) + delta))

\* apply the listed <<condition, key, delta>> penalties in order
RECURSIVE ApplyPenalties(_, _)
ApplyPenalties(f, ps) ==
  IF ps = <<>> THEN f
  ELSE ApplyPenalties(
         IF Head(ps)[1] THEN AddCapped(f, Head(ps)[2], Head(ps)[3]) ELSE f,
         Tail(ps))

\* penalties of the focus fields of the last workout
focus_penalties(focus, focus_attribute) ==
  << << ContainsAny(focus, {<<"l","e","g","s">>, <<"l","e","g">>, <<"s","q","u","a","t">>, <<"d","e","a","d","l","i","f","t">>}),
        "legs", 30 >>,
     << ContainsAny(focus, {<<"p","u","s","h">>, <<"c","h","e","s","t">>, <<"s","h","o","u","l","d","e","r">>, <<"p","r","e","s","s">>}),
        "push", 30 >>,
     << ContainsAny(focus, {<<"p","u","l","l">>, <<"b","a","c","k">>, <<"r","o","w">>, <<"l","a","t">>}),
        "pull", 30 >>,
     << ContainsAny(focus, {<<"s","p","i","n","e">>, <<"b","a","c","k">>, <<"s","p","i","n","a","l">>}), "spine", 25 >>,
     << ContainsAny(focus, {<<"h","i","p","s">>, <<"h","i","p">>, <<"p","e","l","v","i","s">>}), "hips", 25 >>,
     << ContainsAny(focus, {<<"s","h","o","u","l","d","e","r">>, <<"s","h","o","u","l","d","e","r","s">>}), "shoulders", 25 >>,
     << ContainsAny(focus, {<<"c","a","r","d","i","o">>, <<"h","i","i","t">>, <<"i","n","t","e","r","v","a","l">>}),
        "cardio", 40 >>,
     << ContainsAny(focus, {<<"c","a","r","d","i","o">>, <<"h","i","i","t">>, <<"i","n","t","e","r","v","a","l">>}), "cns", 30 >>,
     << Contains(focus_attribute, <<"c","o","o","r","d","i","n","a","t","i","o","n">>)
          \/ Contains(focus, <<"c","o","o","r","d","i","n","a","t","i","o","n">>), "coordination", 30 >>,
     << Contains(focus_attribute, <<"s","p","e","e","d">>) \/ Contains(focus, <<"s","p","e","e","d">>),
        "speed", 30 >>,
     << Contains(focus_attribute, <<"e","n","d","u","r","a","n","c","e">>)
          \/ Contains(focus, <<"e","n","d","u","r","a","n","c","e">>), "endurance", 30 >>,
     << Contains(focus_attribute, <<"e","n","d","u","r","a","n","c","e">>)
          \/ Contains(focus, <<"e","n","d","u","r","a","n","c","e">>), "cardio", 20 >> >>

\* penalties of one exercise name
exercise_penalties(exercise_name) ==
  << << ContainsAny(exercise_name, {<<"s","q","u","a","t">>, <<"d","e","a","d","l","i","f","t">>, <<"l","u","n","g","e">>,
                                    <<"l","e","g"," ","p","r","e","s","s">>, <<"l","e","g"," ","c","u","r","l">>}),
        "legs", 20 >>,
     << ContainsAny(exercise_name, {<<"b","e","n","c","h">>, <<"p","r","e","s","s">>, <<"p","u","s","h","-","u","p">>,
                                    <<"s","h","o","u","l","d","e","r"," ","p","r","e","s","s">>, <<"d","i","p">>}),
        "push", 20 >>,
     << ContainsAny(exercise_name, {<<"r","o","w">>, <<"p","u","l","l","-","u","p">>, <<"l","a","t">>,
                                    <<"c","h","i","n","-","u","p">>, <<"p","u","l","l">>}),
        "pull", 20 >>,
     << ContainsAny(exercise_name, {<<"s","p","r","i","n","t">>, <<"b","u","r","p","e","e">>, <<"j","u","m","p">>,
                                    <<"e","x","p","l","o","s","i","v","e">>}),
        "cns", 15 >> >>

RECURSIVE ApplyExercises(_, _)
ApplyExercises(f, names) ==
  IF names = <<>> THEN f
  ELSE ApplyExercises(ApplyPenalties(f, exercise_penalties(Lower(Head(names)))),
                      Tail(names))

\* the fatigue_scores history_analysis_node returns
history_preload(fatigue_scores, history) ==
  IF history = <<>> THEN fatigue_scores
  ELSE LET last_workout == WorkoutDict(history[Len(history)])
           exercises == IF last_workout.list_key = "exercises"
                        THEN last_workout.items ELSE <<>>
       IN ApplyExercises(
            ApplyPenalties(fatigue_scores,
                           focus_penalties(Lower(last_workout.focus_area),
                                           Lower(last_workout.focus_attribute))),
            exercises)

HistoryAnalysis ==
  /\ running
  /\ pc = "history_analysis"
  /\ st' = [st EXCEPT !.fatigue_scores =
                          history_preload(st.fatigue_scores, st.workout_history),
                      !.absent = @ \ {"fatigue_scores"}]
  /\ stagesRun' = Append(stagesRun, "history_analysis")
  /\ pc' = "pre_route"
  /\ UNCHANGED << hasCheckpoint, running, calls, atDispatch, aimed, flags >>

(***************************************************************************)
(* graph.py: pre_route and route_after_supervisor (the routing gate)       *)
(***************************************************************************)
route_after_supervisor_stale(s) ==
  IF s.workouts_completed_this_week >= max_workouts(s) THEN "end"
  ELSE s.next_node

route_after_supervisor(s) ==
  IF s.workouts_completed_this_week >= max_workouts(s) THEN "end"
  ELSE IF MaxFatigue(s.fatigue_scores) > s.fatigue_threshold
  THEN "recovery_worker"
  ELSE s.next_node

\* keys of the path map of add_conditional_edges("pre_route", ...)
RouteTargets ==
  PersonaWorkers \cup {"recovery_worker", "end"}

\* pre_route runs the passthrough node and its conditional edge; a result
\* outside the path map raises inside the step, which is then not committed.
PreRoute ==
  /\ running
  /\ pc = "pre_route"
  /\ LET target == route_after_supervisor(st) IN
       /\ pc' = IF target \notin RouteTargets THEN "pre_route"
                ELSE IF target = "end" THEN "END" ELSE target
       /\ running' = (target \in RouteTargets /\ target # "end")
       /\ atDispatch' = IF target \in RouteTargets /\ target # "end"
                        THEN Snapshot(st) ELSE atDispatch
  /\ stagesRun' = Append(stagesRun, "pre_route")
  /\ UNCHANGED << st, hasCheckpoint, calls, aimed, flags >>

(***************************************************************************)
(* agents/workers.py: persona workers                                      *)
(***************************************************************************)
FATIGUE_INCREMENT ==
  50

\* keys matched by the focus fields, in the order the code appends them
focus_keys(focus_area, focus_system, focus_attribute, spine_kws) ==
  (IF focus_area # <<>> /\ ContainsAny(focus_area, {<<"l","e","g">>, <<"s","q","u","a","t">>, <<"d","e","a","d","l","i","f","t">>})
     THEN <<"legs">> ELSE <<>>)
  \o (IF focus_area # <<>> /\ ContainsAny(focus_area, {<<"p","u","s","h">>, <<"c","h","e","s","t">>, <<"p","r","e","s","s">>})
     THEN <<"push">> ELSE <<>>)
  \o (IF focus_area # <<>> /\ ContainsAny(focus_area, {<<"p","u","l","l">>, <<"b","a","c","k">>, <<"r","o","w">>})
     THEN <<"pull">> ELSE <<>>)
  \o (IF focus_area # <<>> /\ ContainsAny(focus_area, spine_kws)
     THEN <<"spine">> ELSE <<>>)
  \o (IF focus_area # <<>> /\ Contains(focus_area, <<"h","i","p">>)
     THEN <<"hips">> ELSE <<>>)
  \o (IF focus_area # <<>> /\ Contains(focus_area, <<"s","h","o","u","l","d","e","r">>)
     THEN <<"shoulders">> ELSE <<>>)
  \o (IF focus_system # <<>> /\ ContainsAny(focus_system, {<<"c","a","r","d","i","o">>, <<"m","e","t","a","b","o","l","i","c">>})
     THEN <<"cardio">> ELSE <<>>)
  \o (IF focus_system # <<>> /\ Contains(focus_system, <<"c","n","s">>)
     THEN <<"cns">> ELSE <<>>)
  \o (IF focus_attribute # <<>> /\ Contains(focus_attribute, <<"c","o","o","r","d","i","n","a","t","i","o","n">>)
     THEN <<"coordination">> ELSE <<>>)
  \o (IF focus_attribute # <<>> /\ ContainsAny(focus_attribute, {<<"s","p","e","e","d">>, <<"p","o","w","e","r">>})
     THEN <<"speed">> ELSE <<>>)
  \o (IF focus_attribute # <<>> /\ Contains(focus_attribute, <<"e","n","d","u","r","a","n","c","e">>)
     THEN <<"endurance">> ELSE <<>>)

\* the defaults when nothing matched, then out[:1]
primary_key(keys, focus_area, focus_system, focus_attribute) ==
  IF keys # <<>> THEN << keys[1] >>
  ELSE IF focus_area # <<>>
  THEN << IF Contains(focus_area, <<"l","e","g">>) THEN "legs"
          ELSE IF Contains(focus_area, <<"p","u","s","h">>) THEN "push" ELSE "pull" >>
  ELSE IF focus_system # <<>> THEN << "cardio" >>
  ELSE IF focus_attribute # <<>> THEN << "coordination" >>
  ELSE <<>>

\* workers._fatigue_keys_for_workout
worker_fatigue_keys(daily_workout) ==
  LET fa == Lower(WorkoutDict(daily_workout).focus_area)
      fs == Lower(WorkoutDict(daily_workout).focus_system)
      fat == Lower(WorkoutDict(daily_workout).focus_attribute)
  IN primary_key(focus_keys(fa, fs, fat, {<<"s","p","i","n","e">>, <<"b","a","c","k">>}), fa, fs, fat)

apply_auto_fatigue(current_fatigue, daily_workout) ==
  LET keys == worker_fatigue_keys(daily_workout) IN
    IF keys = <<>> THEN current_fatigue
    ELSE AddCapped(current_fatigue, keys[1], FATIGUE_INCREMENT)

\* nodes of interrupt_after in build_graph
InterruptAfter ==
  PersonaWorkers

EdgeAfter_all_finalize(node) ==
  "finalize_workout"

\* edge leaving a worker node
EdgeAfter(node) ==
  IF node \in PersonaWorkers THEN "finalize_workout" ELSE "END"

\* a worker node followed by its outgoing edge and the interrupt check
WorkerStep(node, agents) ==
  /\ running
  /\ pc = node
  /\ calls' = calls \cup agents
  /\ stagesRun' = Append(stagesRun, node)
  /\ pc' = EdgeAfter(node)
  /\ running' = (EdgeAfter(node) # "END" /\ node \notin InterruptAfter)
  /\ aimed' = {}
  /\ UNCHANGED << hasCheckpoint, atDispatch, flags >>

persona_worker_update_replacing(plan) ==
  [st EXCEPT
     !.daily_workout = plan,
     !.workout_history = <<plan>>,
     !.workouts_completed_this_week = st.workouts_completed_this_week + 1,
     !.fatigue_scores = apply_auto_fatigue(st.fatigue_scores, plan)]

\* the dict iron_worker / yoga_worker / hiit_worker / kb_worker return
persona_worker_update(plan) ==
  [st EXCEPT
     !.daily_workout = plan,
     !.workout_history = Append(st.workout_history, plan),
     !.workouts_completed_this_week = st.workouts_completed_this_week + 1,
     !.fatigue_scores = apply_auto_fatigue(st.fatigue_scores, plan)]

iron_worker ==
  /\ WorkerStep("iron_worker", {"retriever", "worker_agent"})
  /\ \E plan \in PlansOf("iron_worker") : st' = persona_worker_update(plan)

yoga_worker ==
  /\ WorkerStep("yoga_worker", {"retriever", "worker_agent"})
  /\ \E plan \in PlansOf("yoga_worker") : st' = persona_worker_update(plan)

hiit_worker ==
  /\ WorkerStep("hiit_worker", {"retriever", "worker_agent"})
  /\ \E plan \in PlansOf("hiit_worker") : st' = persona_worker_update(plan)

kb_worker ==
  /\ WorkerStep("kb_worker", {"retriever", "worker_agent"})
  /\ \E plan \in PlansOf("kb_worker") : st' = persona_worker_update(plan)

\* agent.run raises inside a worker: the node commits nothing, the exception
\* leaves app.invoke and run_workout, the thread stays pending at the worker
WorkerFails ==
  /\ running
  /\ pc \in PersonaWorkers \cup {"recovery_worker"}
  /\ running' = FALSE
  /\ calls' = calls \cup (IF pc = "recovery_worker"
                          THEN {"recovery_agent"}
                          ELSE {"retriever", "worker_agent"})
  /\ UNCHANGED << st, hasCheckpoint, pc, stagesRun, atDispatch, aimed,
                  flags >>

\* the stored checkpoint stops being loadable: written by an older LangGraph
\* (no pending_sends) or otherwise damaged
CheckpointCorrupted ==
  /\ ~running
  /\ hasCheckpoint
  /\ record = "ok"
  /\ runs < MaxRuns
  /\ record' \in {"incompatible", "unreadable"}
  /\ UNCHANGED << st, hasCheckpoint, pc, running, stagesRun, calls,
                  atDispatch, atCall, deleted, aimed, pending, runs,
                  ENABLE_DECAY, ENABLE_HISTORY_ANALYZER >>

\* run_workout on an incompatible checkpoint: app.invoke raises a KeyError
\* naming step, pending_sends or checkpoint; delete_user, then app.invoke on
\* fresh_state
RunWorkoutRepairs ==
  /\ ~running
  /\ record = "incompatible"
  /\ runs < MaxRuns
  /\ runs' = runs + 1
  /\ \E persona \in CallerPersonas, f \in CallerFatigue, msgs \in MessageLists :
       LET s == fresh_state(persona, f, msgs) IN
         /\ st' = s
         /\ pc' = check_onboarding(s)
         /\ atDispatch' = Snapshot(s)
  /\ atCall' = {}
  /\ aimed' = {}
  /\ deleted' = deleted + Len(st.workout_history)
  /\ record' = "ok"
  /\ running' = TRUE
  /\ stagesRun' = <<>>
  /\ calls' = {}
  /\ UNCHANGED << hasCheckpoint, pending, ENABLE_DECAY,
                  ENABLE_HISTORY_ANALYZER >>

\* run_workout on a checkpoint whose load raises anything else: re-raised
RunWorkoutRaises ==
  /\ ~running
  /\ record = "unreadable"
  /\ runs < MaxRuns
  /\ runs' = runs + 1
  /\ stagesRun' = <<>>
  /\ calls' = {}
  /\ UNCHANGED << st, hasCheckpoint, pc, running, atDispatch, atCall, record,
                  deleted, aimed, pending, ENABLE_DECAY,
                  ENABLE_HISTORY_ANALYZER >>

(***************************************************************************)
(* agents/recovery_worker.py                                               *)
(***************************************************************************)
recovery_worker_update(plan) ==
  [st EXCEPT
     !.daily_workout = plan,
     !.workout_history = Append(st.workout_history, plan),
     !.workouts_completed_this_week = st.workouts_completed_this_week]

recovery_worker ==
  /\ WorkerStep("recovery_worker", {"recovery_agent"})
  /\ \E plan \in RecoveryPlans : st' = recovery_worker_update(plan)


(***************************************************************************)
(* agents/finalize_workout.py                                              *)
(***************************************************************************)
FATIGUE_RPE_HIGH ==
  60

FATIGUE_RPE_MID ==
  40

FATIGUE_RPE_LOW ==
  20

DEFAULT_FATIGUE_INCREMENT ==
  50

RECURSIVE SumSeq(_)
SumSeq(s) ==
  IF s = <<>> THEN 0 ELSE Head(s) + SumSeq(Tail(s))

rpe_to_fatigue_delta_above(sum, n) ==
  IF sum > 8 * n THEN FATIGUE_RPE_HIGH
  ELSE IF sum > 5 * n THEN FATIGUE_RPE_MID
  ELSE FATIGUE_RPE_LOW

\* _rpe_to_fatigue_delta of the average sum/n (n > 0): avg >= 8 iff sum >= 8n
rpe_to_fatigue_delta(sum, n) ==
  IF sum >= 8 * n THEN FATIGUE_RPE_HIGH
  ELSE IF sum >= 5 * n THEN FATIGUE_RPE_MID
  ELSE FATIGUE_RPE_LOW

\* finalize_workout._fatigue_keys_for_workout
fatigue_keys_for_workout(daily_workout) ==
  LET fa == Lower(WorkoutDict(daily_workout).focus_area)
      fs == Lower(WorkoutDict(daily_workout).focus_system)
      fat == Lower(WorkoutDict(daily_workout).focus_attribute)
  IN primary_key(focus_keys(fa, fs, fat, {<<"s","p","i","n","e">>}), fa, fs, fat)

RECURSIVE compute_fatigue_from_logs(_, _)
compute_fatigue_from_logs(current_fatigue, active_logs) ==
  IF active_logs = <<>> THEN current_fatigue
  ELSE LET log == Head(active_logs)
           muscle_group == Lower(Strip(log.muscle_group))
           delta == IF log.sets = <<>>
                    THEN rpe_to_fatigue_delta(log.average_rpe, 100)
                    ELSE rpe_to_fatigue_delta(SumSeq(log.sets), Len(log.sets))
       IN compute_fatigue_from_logs(
            IF muscle_group = <<>> THEN current_fatigue
            ELSE AddCapped(current_fatigue, GroupKey(muscle_group), delta),
            Tail(active_logs))

compute_default_fatigue_all(current_fatigue, daily_workout) ==
  LET workout == WorkoutDict(daily_workout)
      keys == focus_keys(Lower(workout.focus_area), Lower(workout.focus_system),
                         Lower(workout.focus_attribute), {<<"s","p","i","n","e">>})
  IN ApplyPenalties(current_fatigue,
                    [i \in 1..Len(keys) |->
                       << TRUE, keys[i], DEFAULT_FATIGUE_INCREMENT >>])

compute_default_fatigue(current_fatigue, daily_workout) ==
  LET keys == fatigue_keys_for_workout(daily_workout) IN
    IF keys = <<>> THEN current_fatigue
    ELSE AddCapped(current_fatigue, keys[1], DEFAULT_FATIGUE_INCREMENT)

\* the state after merging the dict finalize_workout_node returns
finalize_workout_node(s) ==
  IF s.daily_workout = NoPlan
  THEN [s EXCEPT !.active_logs = <<>>, !.is_working_out = FALSE]
  ELSE [s EXCEPT
          !.workout_history = Append(s.workout_history, s.daily_workout),
          !.workouts_completed_this_week = s.workouts_completed_this_week + 1,
          !.fatigue_scores =
              IF s.active_logs # <<>>
              THEN compute_fatigue_from_logs(s.fatigue_scores, s.active_logs)
              ELSE compute_default_fatigue(s.fatigue_scores, s.daily_workout),
          !.active_logs = <<>>,
          !.is_working_out = FALSE]

FinalizeWorkout ==
  /\ running
  /\ pc = "finalize_workout"
  /\ st' = finalize_workout_node(st)
  /\ stagesRun' = Append(stagesRun, "finalize_workout")
  /\ pc' = "END"
  /\ running' = FALSE
  /\ aimed' = {}
  /\ UNCHANGED << hasCheckpoint, calls, atDispatch, flags >>

(***************************************************************************)
(* backend/services/workout_service.py: resume_graph, log_set              *)
(***************************************************************************)
ResumeNode_entry(next) ==
  "supervisor"

\* node at which app.invoke(None, config) re-enters an interrupted thread
ResumeNode(next) ==
  next

\* resume_graph / finish_workout: app.invoke(None, config) continues the
\* thread at its pending node; a finished thread runs nothing.
Resume ==
  /\ ~running
  /\ hasCheckpoint
  /\ record = "ok"
  /\ stagesRun' = <<>>
  /\ calls' = {}
  /\ IF pc = "END"
     THEN UNCHANGED << pc, running >>
     ELSE /\ pc' = ResumeNode(pc)
          /\ running' = TRUE
  /\ UNCHANGED << st, hasCheckpoint, atDispatch, aimed, flags >>

\* main.py cmd_reset_workout: update_state clears the current workout, then
\* app.invoke(None, config) lets a pending finalize_workout run to END
ResetWorkout ==
  /\ ~running
  /\ hasCheckpoint
  /\ record = "ok"
  /\ st' = [st EXCEPT !.daily_workout = NoPlan,
                      !.active_logs = <<>>,
                      !.is_working_out = FALSE]
  /\ stagesRun' = <<>>
  /\ calls' = {}
  /\ IF pc = "END"
     THEN UNCHANGED << pc, running >>
     ELSE /\ pc' = ResumeNode(pc)
          /\ running' = TRUE
  /\ aimed' = {}
  /\ UNCHANGED << hasCheckpoint, atDispatch, flags >>

record_after_delete_kept(existed) ==
  existed

\* db_utils.delete_user: no checkpoint row of the thread is left
record_after_delete(existed) ==
  FALSE

\* reset_user_state: delete_user removes the stored record of the user
ResetUserState ==
  /\ ~running
  /\ hasCheckpoint
  /\ hasCheckpoint' = record_after_delete(hasCheckpoint)
  /\ st' = FreshState
  /\ pc' = "END"
  /\ stagesRun' = <<>>
  /\ calls' = {}
  /\ atDispatch' = Snapshot(FreshState)
  /\ aimed' = {}
  /\ record' = "ok"
  /\ deleted' = deleted + Len(st.workout_history)
  /\ UNCHANGED << running, atCall, pending, runs, ENABLE_DECAY,
                  ENABLE_HISTORY_ANALYZER >>

\* default muscle group of a logged exercise, from the workout focus
default_muscle(daily_workout) ==
  LET workout == WorkoutDict(daily_workout)
      raw == IF workout.focus_area # <<>> THEN workout.focus_area
             ELSE IF workout.focus_system # <<>> THEN workout.focus_system
             ELSE IF workout.focus_attribute # <<>> THEN workout.focus_attribute
             ELSE <<"g","e","n","e","r","a","l">>
      focus == Lower(raw)
  IN IF Contains(focus, <<"l","e","g">>) THEN <<"l","e","g","s">>
     ELSE IF ContainsAny(focus, {<<"p","u","s","h">>, <<"c","h","e","s","t">>}) THEN <<"p","u","s","h">>
     ELSE IF ContainsAny(focus, {<<"p","u","l","l">>, <<"b","a","c","k">>}) THEN <<"p","u","l","l">>
     ELSE IF Contains(focus, <<"s","p","i","n","e">>) THEN <<"s","p","i","n","e">>
     ELSE IF Contains(focus, <<"h","i","p">>) THEN <<"h","i","p","s">>
     ELSE IF Contains(focus, <<"s","h","o","u","l","d","e","r">>) THEN <<"s","h","o","u","l","d","e","r","s">>
     ELSE IF Contains(focus, <<"c","a","r","d","i","o">>) THEN <<"c","a","r","d","i","o">>
     ELSE IF Contains(focus, <<"c","n","s">>) THEN <<"c","n","s">>
     ELSE <<"g","e","n","e","r","a","l">>

\* round(sum / n, 2) in hundredths
average_rpe(sets) ==
  (2 * 100 * SumSeq(sets) + Len(sets)) \div (2 * Len(sets))

SameName(a, b) ==
  Lower(Strip(a)) = Lower(Strip(b))

\* active_logs after logging one set (a set is recorded by its rpe)
logged(active_logs, workout, exercise_name, rpe) ==
  IF \E i \in 1..Len(active_logs) :
       SameName(active_logs[i].exercise_name, exercise_name)
  THEN LET i == CHOOSE j \in 1..Len(active_logs) :
                  /\ SameName(active_logs[j].exercise_name, exercise_name)
                  /\ \A k \in 1..(j - 1) :
                       ~SameName(active_logs[k].exercise_name, exercise_name)
           sets_list == Append(active_logs[i].sets, rpe)
       IN [active_logs EXCEPT ![i] =
             [@ EXCEPT !.sets = sets_list,
                       !.average_rpe = average_rpe(sets_list)]]
  ELSE Append(active_logs,
              [exercise_name |-> Strip(exercise_name),
               muscle_group |-> default_muscle(workout),
               sets |-> << rpe >>,
               average_rpe |-> 100 * rpe])

RECURSIVE SetsLogged(_)
SetsLogged(active_logs) ==
  IF active_logs = <<>> THEN 0
  ELSE Len(Head(active_logs).sets) + SetsLogged(Tail(active_logs))

\* rpe values of the logged sets
LoggedRpe ==
  {8}

\* log_set for an item of the current plan, referred to by its name
LogSetUpTo(max) ==
  /\ ~running
  /\ hasCheckpoint
  /\ record = "ok"
  /\ st.daily_workout # NoPlan
  /\ SetsLogged(st.active_logs) < max
  /\ \E i \in 1..Len(WorkoutDict(st.daily_workout).items), rpe \in LoggedRpe :
       /\ st' = [st EXCEPT !.active_logs =
                   logged(st.active_logs, st.daily_workout,
                          WorkoutDict(st.daily_workout).items[i], rpe)]
       /\ aimed' = aimed \cup {i}
  /\ UNCHANGED << hasCheckpoint, pc, running, stagesRun, calls,
                  atDispatch, flags >>

LogSet ==
  LogSetUpTo(MaxSets)

\* the same operation with room for a set on a second item
LogSetItems ==
  LogSetUpTo(MaxSets + 1)

\* log_set calls that may overlap on one user
MaxInFlight ==
  2

\* the element at index i removed
RemoveAt(s, i) ==
  [k \in 1..(Len(s) - 1) |-> IF k < i THEN s[k] ELSE s[k + 1]]

\* first half of log_set: get_current_state, then the new active_logs are
\* computed from the state that was read
LogSetRead ==
  /\ ~running
  /\ hasCheckpoint
  /\ record = "ok"
  /\ st.daily_workout # NoPlan
  /\ Len(pending) < MaxInFlight
  /\ SetsLogged(st.active_logs) < MaxSets + 1
  /\ \E i \in 1..Len(WorkoutDict(st.daily_workout).items), rpe \in LoggedRpe :
       pending' = Append(pending,
                         logged(st.active_logs, st.daily_workout,
                                WorkoutDict(st.daily_workout).items[i], rpe))
  /\ UNCHANGED << st, hasCheckpoint, pc, running, stagesRun, calls,
                  atDispatch, aimed, atCall, record, deleted, runs,
                  ENABLE_DECAY, ENABLE_HISTORY_ANALYZER >>

\* second half of log_set: update_state writes the computed active_logs
LogSetWrite ==
  /\ ~running
  /\ hasCheckpoint
  /\ record = "ok"
  /\ \E k \in 1..Len(pending) :
       /\ st' = [st EXCEPT !.active_logs = pending[k]]
       /\ pending' = RemoveAt(pending, k)
  /\ UNCHANGED << hasCheckpoint, pc, running, stagesRun, calls,
                  atDispatch, aimed, atCall, record, deleted, runs,
                  ENABLE_DECAY, ENABLE_HISTORY_ANALYZER >>

\* rpe values outside 1..10; log_set takes any int
OutOfRangeRpe ==
  {0, 11}

\* log_set for an item of the current plan with an rpe outside 1..10
LogSetOutOfRange ==
  /\ ~running
  /\ hasCheckpoint
  /\ record = "ok"
  /\ st.daily_workout # NoPlan
  /\ SetsLogged(st.active_logs) < MaxSets
  /\ \E i \in 1..Len(WorkoutDict(st.daily_workout).items),
        rpe \in OutOfRangeRpe :
       /\ st' = [st EXCEPT !.active_logs =
                   logged(st.active_logs, st.daily_workout,
                          WorkoutDict(st.daily_workout).items[i], rpe)]
       /\ aimed' = aimed \cup {i}
  /\ UNCHANGED << hasCheckpoint, pc, running, stagesRun, calls,
                  atDispatch, flags >>

\* references that name no item of any plan: a name, an id, the empty text
UnknownReferences ==
  { <<"B","e","n","c","h"," ","P","r","e","s","s">>, <<"e","x","_","7">>, <<>> }

\* log_set with a reference that names no item of the current plan
LogSetUnknown ==
  /\ ~running
  /\ hasCheckpoint
  /\ record = "ok"
  /\ st.daily_workout # NoPlan
  /\ SetsLogged(st.active_logs) < MaxSets + 1
  /\ \E reference \in UnknownReferences, rpe \in LoggedRpe :
       st' = [st EXCEPT !.active_logs =
                logged(st.active_logs, st.daily_workout, reference, rpe)]
  /\ UNCHANGED << hasCheckpoint, pc, running, stagesRun, calls,
                  atDispatch, aimed, flags >>

(***************************************************************************)
(* Time                                                                    *)
(***************************************************************************)
HoursPerTick ==
  24

\* a day passes between two caller operations: with now as the origin of
\* time, the stored timestamp moves a day into the past
Tick ==
  /\ ~running
  /\ hasCheckpoint
  /\ record = "ok"
  /\ now - st.last_session_timestamp < MaxTicks * HoursPerTick
  /\ st' = [st EXCEPT !.last_session_timestamp = @ - HoursPerTick]
  /\ UNCHANGED << hasCheckpoint, pc, running, stagesRun, calls,
                  atDispatch, aimed, flags >>

(***************************************************************************)
(* The routing pipeline alone (supervisor, optional stages, gate), started *)
(* from session states drawn from a wider set than run_workout builds in   *)
(* the bounded runs of Spec.                                               *)
(***************************************************************************)
RoutingMessages ==
  { <<>> } \cup { <<m>> : m \in UserMessages }

RoutingFatigue ==
  { EmptyMap,
    [x \in {"legs"} |-> 80],
    [x \in {"legs"} |-> 81],
    [x \in {"legs"} |-> 85],
    [x \in {"legs", "cns"} |-> IF x = "cns" THEN 100 ELSE 20] }

RoutingCompleted ==
  {0, 1, 3, 4, 5}

RoutingHistory ==
  { <<>>, << "strength_legs" >> }

\* selected_persona of the stored states (a persona of the Literal)
RoutingPersonas ==
  CallerPersonas \cup {"hiit"}

RoutingStates ==
  { [FreshState EXCEPT
       !.selected_persona = persona,
       !.subscribed_personas = sub,
       !.fatigue_scores = f,
       !.workout_history = history,
       !.workouts_completed_this_week = completed,
       !.messages = msgs] :
    persona \in RoutingPersonas, sub \in CallerSubscribed,
    f \in RoutingFatigue, history \in RoutingHistory,
    completed \in RoutingCompleted, msgs \in RoutingMessages }

RoutingInit ==
  /\ st \in RoutingStates
  /\ hasCheckpoint = TRUE
  /\ pc = "supervisor"
  /\ running = TRUE
  /\ stagesRun = <<>>
  /\ calls = {}
  /\ atDispatch = Snapshot(st)
  /\ atCall = {}
  /\ record = "ok"
  /\ deleted = 0
  /\ aimed = {}
  /\ pending = <<>>
  /\ runs = 1
  /\ ENABLE_DECAY \in BOOLEAN
  /\ ENABLE_HISTORY_ANALYZER \in BOOLEAN

RoutingNext ==
  \/ Supervisor
  \/ Decay
  \/ HistoryAnalysis
  \/ PreRoute

SpecRouting ==
  RoutingInit /\ [][RoutingNext]_vars

(***************************************************************************)
(* The routing pipeline started from stored states whose last session is   *)
(* one or three days in the past.                                          *)
(***************************************************************************)
StaleStates ==
  { [s EXCEPT !.last_session_timestamp = now - h] :
    s \in { r \in RoutingStates :
              /\ r.workouts_completed_this_week = 0
              /\ r.workout_history = <<>>
              /\ r.selected_persona = "iron" },
    h \in {24, 72} }

StaleInit ==
  /\ st \in StaleStates
  /\ hasCheckpoint = TRUE
  /\ pc = "supervisor"
  /\ running = TRUE
  /\ stagesRun = <<>>
  /\ calls = {}
  /\ atDispatch = Snapshot(st)
  /\ atCall = {}
  /\ record = "ok"
  /\ deleted = 0
  /\ aimed = {}
  /\ pending = <<>>
  /\ runs = 1
  /\ ENABLE_DECAY \in BOOLEAN
  /\ ENABLE_HISTORY_ANALYZER \in BOOLEAN

SpecStale ==
  StaleInit /\ [][RoutingNext]_vars

(***************************************************************************)
(* The routing pipeline started from state dicts that lack the weekly     *)
(* maximum, the fatigue map or both.                                       *)
(***************************************************************************)
MissingKeys ==
  SUBSET {"max_workouts_per_week", "fatigue_scores"} \ { {} }

DefaultsStates ==
  { [FreshState EXCEPT
       !.selected_persona = persona,
       !.subscribed_personas = sub,
       !.fatigue_scores =
           IF "fatigue_scores" \in missing THEN EmptyMap ELSE f,
       !.max_workouts_per_week =
           IF "max_workouts_per_week" \in missing THEN 0 ELSE @,
       !.workout_history = history,
       !.workouts_completed_this_week = completed,
       !.messages = msgs,
       !.absent = missing] :
    persona \in CallerPersonas, sub \in CallerSubscribed,
    f \in RoutingFatigue, history \in RoutingHistory,
    completed \in RoutingCompleted, msgs \in RoutingMessages,
    missing \in MissingKeys }

DefaultsInit ==
  /\ st \in DefaultsStates
  /\ hasCheckpoint = TRUE
  /\ pc = "supervisor"
  /\ running = TRUE
  /\ stagesRun = <<>>
  /\ calls = {}
  /\ atDispatch = Snapshot(st)
  /\ atCall = {}
  /\ record = "ok"
  /\ deleted = 0
  /\ aimed = {}
  /\ pending = <<>>
  /\ runs = 1
  /\ ENABLE_DECAY \in BOOLEAN
  /\ ENABLE_HISTORY_ANALYZER \in BOOLEAN

SpecDefaults ==
  DefaultsInit /\ [][RoutingNext]_vars

(***************************************************************************)
(* decay_node applied to states with fatigue maps and times of the last    *)
(* session drawn from bounded sets.                                        *)
(***************************************************************************)
DecayFatigue ==
  { EmptyMap }
    \cup { [x \in {"legs", "cns"} |-> IF x = "legs" THEN v ELSE w] :
           v \in {0, 1, 37, 80, 100}, w \in {0, 50, 100} }

\* hours since the last session
DecayHours ==
  {0, 1, 24, 48, 72}

DecayStates ==
  { [FreshState EXCEPT
       !.fatigue_scores = f,
       !.last_session_timestamp = now - h] :
    f \in DecayFatigue, h \in DecayHours }

DecayInit ==
  /\ st \in DecayStates
  /\ hasCheckpoint = TRUE
  /\ pc = "decay"
  /\ running = TRUE
  /\ stagesRun = << "supervisor" >>
  /\ calls = {}
  /\ atDispatch = Snapshot(st)
  /\ atCall = {}
  /\ record = "ok"
  /\ deleted = 0
  /\ aimed = {}
  /\ pending = <<>>
  /\ runs = 1
  /\ ENABLE_DECAY = TRUE
  /\ ENABLE_HISTORY_ANALYZER \in BOOLEAN

SpecDecay ==
  DecayInit /\ [][Decay]_vars

(***************************************************************************)
(* agents/log_rest.py: log_rest_node; graph.py: log_rest_day               *)
(***************************************************************************)
\* REST_REDUCTION_FACTOR, in hundredths
REST_REDUCTION_FACTOR ==
  70

log_rest_node_emptied(s) ==
  [fatigue_scores |-> EmptyMap,
   last_session_timestamp |-> now]

log_rest_node(s) ==
  [fatigue_scores |->
     [g \in DOMAIN s.fatigue_scores |->
        LET reduced == (s.fatigue_scores[g] * REST_REDUCTION_FACTOR) \div 100
        IN IF reduced < 0 THEN 0 ELSE reduced],
   last_session_timestamp |-> now]

\* log_rest_day: update_state writes the two keys log_rest_node returns into
\* the checkpoint of the thread and leaves its pending node as it is
log_rest_day ==
  /\ ~running
  /\ hasCheckpoint
  /\ record = "ok"
  /\ LET rest_result == log_rest_node(st)
     IN st' = [st EXCEPT
                 !.fatigue_scores = rest_result.fatigue_scores,
                 !.last_session_timestamp = rest_result.last_session_timestamp]
  /\ UNCHANGED << hasCheckpoint, pc, running, stagesRun, calls,
                  atDispatch, aimed, flags >>

(***************************************************************************)
(* Rest days logged on stored states drawn from bounded sets: idle and     *)
(* paused threads, with and without history, plan and logs.                *)
(***************************************************************************)
RestPlans ==
  { NoPlan, "strength_full" }

RestLogs ==
  { <<>>,
    << [exercise_name |-> <<"B","a","c","k"," ","S","q","u","a","t">>, muscle_group |-> <<"l","e","g","s">>,
        sets |-> <<8>>, average_rpe |-> 800] >> }

RestStates ==
  { [FreshState EXCEPT
       !.fatigue_scores = f,
       !.last_session_timestamp = now - h,
       !.daily_workout = p,
       !.workout_history = IF done = 0 THEN <<>> ELSE << "strength_full" >>,
       !.workouts_completed_this_week = done,
       !.active_logs = logs] :
    f \in DecayFatigue, h \in {0, 24}, p \in RestPlans,
    done \in {0, 1}, logs \in RestLogs }

RestInit ==
  /\ st \in RestStates
  /\ hasCheckpoint = TRUE
  /\ pc \in {"END", "finalize_workout"}
  /\ running = FALSE
  /\ stagesRun = <<>>
  /\ calls = {}
  /\ atDispatch = Snapshot(st)
  /\ atCall = {}
  /\ record = "ok"
  /\ deleted = 0
  /\ aimed = {}
  /\ pending = <<>>
  /\ runs = 1
  /\ ENABLE_DECAY = TRUE
  /\ ENABLE_HISTORY_ANALYZER = FALSE

SpecRest ==
  RestInit /\ [][log_rest_day]_vars

(***************************************************************************)
(* finalize_workout_node applied to states drawn from a wider set of       *)
(* fatigue maps, plans and exercise logs than the bounded runs of Spec     *)
(* build.                                                                  *)
(***************************************************************************)
FinalizeFatigue ==
  { EmptyMap,
    [x \in {"legs"} |-> 30],
    [x \in {"legs", "push"} |-> IF x = "legs" THEN 70 ELSE 100],
    [x \in {"pull", "spine", "cardio"} |-> IF x = "pull" THEN 55 ELSE 10] }

\* the sets of a log (a set is its rpe) with the stored average_rpe
FinalizeSets ==
  { << <<>>, 800 >>, << <<>>, 799 >>, << <<>>, 450 >>,
    << <<8>>, 800 >>, << <<7, 8>>, 750 >>, << <<5>>, 500 >>,
    << <<4, 5>>, 450 >>, << <<10, 10>>, 1000 >>, << <<1>>, 100 >> }

FinalizeGroups ==
  { <<"l","e","g","s">>, <<" ","P","u","s","h"," ">>, <<>> }

FinalizeLogEntries ==
  { [exercise_name |-> <<"B","a","c","k"," ","S","q","u","a","t">>, muscle_group |-> g,
     sets |-> s[1], average_rpe |-> s[2]] :
    g \in FinalizeGroups, s \in FinalizeSets }

FinalizeLogs ==
  { <<>> } \cup { << a >> : a \in FinalizeLogEntries }
    \cup { << a, b >> : a, b \in FinalizeLogEntries }

FinalizePlans ==
  PersonaPlans \cup {"strength_full"}

FinalizeStates ==
  { [FreshState EXCEPT
       !.daily_workout = p,
       !.fatigue_scores = f,
       !.active_logs = logs] :
    p \in FinalizePlans, f \in FinalizeFatigue, logs \in FinalizeLogs }

FinalizeInit ==
  /\ st \in FinalizeStates
  /\ hasCheckpoint = TRUE
  /\ pc = "finalize_workout"
  /\ running = TRUE
  /\ stagesRun = <<>>
  /\ calls = {}
  /\ atDispatch = Snapshot(st)
  /\ atCall = {}
  /\ record = "ok"
  /\ deleted = 0
  /\ aimed = {}
  /\ pending = <<>>
  /\ runs = 1
  /\ ENABLE_DECAY = FALSE
  /\ ENABLE_HISTORY_ANALYZER = FALSE

SpecFinalize ==
  FinalizeInit /\ [][FinalizeWorkout]_vars

(***************************************************************************)
(* The workflow from its conditional entry, for users that are onboarded   *)
(* and users that are not (update_user_profile stores is_onboarded).       *)
(***************************************************************************)
OnboardingStates ==
  { [s EXCEPT !.is_onboarded = onboarded] :
    s \in RoutingStates, onboarded \in BOOLEAN }

OnboardingInit ==
  /\ st \in OnboardingStates
  /\ hasCheckpoint = TRUE
  /\ pc = check_onboarding(st)
  /\ running = TRUE
  /\ stagesRun = <<>>
  /\ calls = {}
  /\ atDispatch = Snapshot(st)
  /\ atCall = {}
  /\ record = "ok"
  /\ deleted = 0
  /\ aimed = {}
  /\ pending = <<>>
  /\ runs = 1
  /\ ENABLE_DECAY \in BOOLEAN
  /\ ENABLE_HISTORY_ANALYZER \in BOOLEAN

OnboardingNext ==
  \/ Recommender
  \/ Supervisor
  \/ Decay
  \/ HistoryAnalysis
  \/ PreRoute

SpecOnboarding ==
  OnboardingInit /\ [][OnboardingNext]_vars

(***************************************************************************)
(* Specification of the caller operations on one user thread               *)
(***************************************************************************)
Next ==
  \/ RunWorkout
  \/ Supervisor
  \/ Decay
  \/ HistoryAnalysis
  \/ PreRoute
  \/ iron_worker
  \/ yoga_worker
  \/ hiit_worker
  \/ kb_worker
  \/ recovery_worker
  \/ FinalizeWorkout
  \/ Resume
  \/ ResetWorkout
  \/ LogSet
  \/ Tick

Spec ==
  Init /\ [][Next]_vars

(***************************************************************************)
(* The same caller operations with the failures of a run: a worker whose   *)
(* agent raises, a stored checkpoint that can no longer be loaded.          *)
(* run_workout records the stored state it found.                          *)
(***************************************************************************)
NextFailures ==
  \/ ObservedRunWorkout
  \/ Supervisor
  \/ Decay
  \/ HistoryAnalysis
  \/ PreRoute
  \/ iron_worker
  \/ yoga_worker
  \/ hiit_worker
  \/ kb_worker
  \/ recovery_worker
  \/ FinalizeWorkout
  \/ Resume
  \/ ResetWorkout
  \/ WorkerFails
  \/ CheckpointCorrupted
  \/ RunWorkoutRepairs
  \/ RunWorkoutRaises
  \/ LogSet
  \/ Tick

SpecFailures ==
  Init /\ [][NextFailures]_vars

(***************************************************************************)
(* The caller operations with a checkpoint that can stop being loadable,   *)
(* and nothing else failing.                                               *)
(***************************************************************************)
NextRepair ==
  \/ RunWorkout
  \/ Supervisor
  \/ Decay
  \/ HistoryAnalysis
  \/ PreRoute
  \/ iron_worker
  \/ yoga_worker
  \/ hiit_worker
  \/ kb_worker
  \/ recovery_worker
  \/ FinalizeWorkout
  \/ Resume
  \/ ResetWorkout
  \/ CheckpointCorrupted
  \/ RunWorkoutRepairs
  \/ RunWorkoutRaises
  \/ LogSet
  \/ Tick

SpecRepair ==
  Init /\ [][NextRepair]_vars

(***************************************************************************)
(* The caller operations with every kind of log_set call: more than one    *)
(* item of a plan, and references that name no item.                       *)
(***************************************************************************)
NextLogging ==
  \/ RunWorkout
  \/ Supervisor
  \/ Decay
  \/ HistoryAnalysis
  \/ PreRoute
  \/ iron_worker
  \/ yoga_worker
  \/ hiit_worker
  \/ kb_worker
  \/ recovery_worker
  \/ FinalizeWorkout
  \/ Resume
  \/ ResetWorkout
  \/ LogSetItems
  \/ LogSetUnknown
  \/ Tick

SpecLogging ==
  Init /\ [][NextLogging]_vars

(***************************************************************************)
(* The caller operations with the inputs no caller path validates.         *)
(***************************************************************************)
NextInputs ==
  \/ RunWorkout
  \/ Supervisor
  \/ Decay
  \/ HistoryAnalysis
  \/ PreRoute
  \/ iron_worker
  \/ yoga_worker
  \/ hiit_worker
  \/ kb_worker
  \/ recovery_worker
  \/ FinalizeWorkout
  \/ Resume
  \/ ResetWorkout
  \/ LogSet
  \/ LogSetOutOfRange
  \/ RunWorkoutOutOfRange
  \/ Tick

SpecInputs ==
  Init /\ [][NextInputs]_vars

(***************************************************************************)
(* One run of the compiled graph from its entry to the interrupt or END:   *)
(* app.invoke executes the enabled node of every step until none is left.  *)
(***************************************************************************)
TerminationStates ==
  { s \in OnboardingStates :
      /\ s.workout_history = <<>>
      /\ s.workouts_completed_this_week \in {0, 4}
      /\ s.selected_persona = "iron" }

TerminationInit ==
  /\ st \in TerminationStates
  /\ hasCheckpoint = TRUE
  /\ pc = check_onboarding(st)
  /\ running = TRUE
  /\ stagesRun = <<>>
  /\ calls = {}
  /\ atDispatch = Snapshot(st)
  /\ atCall = {}
  /\ record = "ok"
  /\ deleted = 0
  /\ aimed = {}
  /\ pending = <<>>
  /\ runs = 1
  /\ ENABLE_DECAY \in BOOLEAN
  /\ ENABLE_HISTORY_ANALYZER \in BOOLEAN

NextRun ==
  \/ Recommender
  \/ Supervisor
  \/ Decay
  \/ HistoryAnalysis
  \/ PreRoute
  \/ iron_worker
  \/ yoga_worker
  \/ hiit_worker
  \/ kb_worker
  \/ recovery_worker

SpecTermination ==
  TerminationInit /\ [][NextRun]_vars

(***************************************************************************)
(* The two callers of run_workout that build its fatigue_scores argument   *)
(* from default values: the CLI chat loop and the backend service.         *)
(***************************************************************************)
\* defaults of main.py cmd_chat and workout_service.py process_user_input
FatigueDefaults ==
  [x \in {"legs", "push", "pull", "spine", "hips", "shoulders", "cardio",
          "cns", "coordination", "speed", "endurance"} |->
     IF x \in {"legs", "push", "pull"} THEN 20 ELSE 10]

\* main.py _interactive_chat_loop: every request passes fatigue_defaults,
\* the defaults of cmd_chat (no --fatigue option given)
RunWorkoutChat ==
  CallRunWorkoutWith(FALSE, { FatigueDefaults })

\* workout_service.py process_user_input: the stored scores over the
\* defaults, or the defaults when nothing is stored
RunWorkoutService ==
  CallRunWorkoutWith(FALSE,
    { IF hasCheckpoint /\ DOMAIN st.fatigue_scores # {}
      THEN Merge(FatigueDefaults, st.fatigue_scores)
      ELSE FatigueDefaults })

NextCallers ==
  \/ RunWorkoutChat
  \/ RunWorkoutService
  \/ Supervisor
  \/ Decay
  \/ HistoryAnalysis
  \/ PreRoute
  \/ iron_worker
  \/ yoga_worker
  \/ hiit_worker
  \/ kb_worker
  \/ recovery_worker
  \/ FinalizeWorkout
  \/ Resume

SpecCallers ==
  Init /\ [][NextCallers]_vars

\* payloads of the settings route ({} is a field left out)
SettingsMaxWorkouts ==
  { {}, {0}, {3} }

SettingsThresholds ==
  { {}, {50}, {150} }

\* routes/settings.py update_user_settings: a threshold outside 0.0..1.0 is
\* answered with 400; every other payload goes to update_state as it is
update_user_settings ==
  /\ ~running
  /\ hasCheckpoint
  /\ record = "ok"
  /\ \E max_arg \in SettingsMaxWorkouts, threshold_arg \in SettingsThresholds :
       /\ max_arg # {} \/ threshold_arg # {}
       /\ IF threshold_arg # {} /\ ~(Some(threshold_arg) \in 0..100)
          THEN st' = st
          ELSE st' = [st EXCEPT
                        !.max_workouts_per_week =
                            IF max_arg # {} THEN Some(max_arg) ELSE @,
                        !.fatigue_threshold =
                            IF threshold_arg # {}
                            THEN Some(threshold_arg) ELSE @]
  /\ UNCHANGED << hasCheckpoint, pc, running, stagesRun, calls,
                  atDispatch, aimed, flags >>

(***************************************************************************)
(* Sessions with settings updates between them.                            *)
(***************************************************************************)
NextSettings ==
  \/ RunWorkout
  \/ Supervisor
  \/ Decay
  \/ HistoryAnalysis
  \/ PreRoute
  \/ iron_worker
  \/ yoga_worker
  \/ hiit_worker
  \/ kb_worker
  \/ recovery_worker
  \/ FinalizeWorkout
  \/ Resume
  \/ update_user_settings

SpecSettings ==
  Init /\ [][NextSettings]_vars

\* 7 * 24 hours
WeekHours ==
  168

\* db_utils.simulate_new_week: counter 0, last session seven days ago
simulate_new_week ==
  /\ ~running
  /\ hasCheckpoint
  /\ record = "ok"
  /\ st' = [st EXCEPT !.workouts_completed_this_week = 0,
                      !.last_session_timestamp = now - WeekHours]
  /\ UNCHANGED << hasCheckpoint, pc, running, stagesRun, calls,
                  atDispatch, aimed, flags >>

(***************************************************************************)
(* Sessions with simulated weeks between them.                             *)
(***************************************************************************)
NextWeek ==
  \/ RunWorkout
  \/ Supervisor
  \/ Decay
  \/ HistoryAnalysis
  \/ PreRoute
  \/ iron_worker
  \/ yoga_worker
  \/ hiit_worker
  \/ kb_worker
  \/ recovery_worker
  \/ FinalizeWorkout
  \/ Resume
  \/ LogSet
  \/ simulate_new_week

SpecWeek ==
  Init /\ [][NextWeek]_vars

(***************************************************************************)
(* Sessions with the full reset of a user between them.                    *)
(***************************************************************************)
NextReset ==
  \/ RunWorkout
  \/ Supervisor
  \/ Decay
  \/ HistoryAnalysis
  \/ PreRoute
  \/ iron_worker
  \/ yoga_worker
  \/ hiit_worker
  \/ kb_worker
  \/ recovery_worker
  \/ FinalizeWorkout
  \/ Resume
  \/ LogSet
  \/ ResetUserState

SpecReset ==
  Init /\ [][NextReset]_vars

(***************************************************************************)
(* The caller operations with log_set in its two halves, so that calls on  *)
(* one user overlap: nothing in the service serialises them.               *)
(***************************************************************************)
NextConcurrent ==
  \/ RunWorkout
  \/ Supervisor
  \/ Decay
  \/ HistoryAnalysis
  \/ PreRoute
  \/ iron_worker
  \/ yoga_worker
  \/ hiit_worker
  \/ kb_worker
  \/ recovery_worker
  \/ FinalizeWorkout
  \/ Resume
  \/ LogSetRead
  \/ LogSetWrite

SpecConcurrent ==
  Init /\ [][NextConcurrent]_vars

(***************************************************************************)
(* Properties                                                              *)
(***************************************************************************)
\* the supervisor step of a run
SupervisorStep ==
  pc = "supervisor" /\ running /\ pc' # "supervisor"

\* C1: whenever the weekly counter has reached the weekly maximum, the
\* supervisor returns next_node "end" whatever the message and the fatigue
\* map are (also when a fatigue score exceeds the threshold), and it makes no
\* external decision call.
C1_FrequencyOverride ==
  [][ (SupervisorStep
       /\ st.workouts_completed_this_week >= st.max_workouts_per_week)
      => (st'.next_node = "end" /\ calls' = calls
          /\ st'.fatigue_scores = st.fatigue_scores) ]_vars

\* the override has decided "end" for a persona switch phrased as a question
\* while a fatigue score exceeds the threshold
C1_Witness ==
  /\ "supervisor" \in { stagesRun[i] : i \in 1..Len(stagesRun) }
  /\ pc # "END"
  /\ st.workouts_completed_this_week = st.max_workouts_per_week
  /\ MaxFatigue(st.fatigue_scores) > st.fatigue_threshold
  /\ st.messages = << "switch_question" >>
  /\ st.next_node = "end"
  /\ calls = {}

\* C2: below the weekly maximum, a maximal fatigue score strictly above the
\* threshold makes the supervisor return "recovery_worker" for every message,
\* without a decision call; a maximum equal to the threshold does not: the
\* fast paths then return the persona worker or the question node.
C2_FatigueOverride ==
  [][ (SupervisorStep
       /\ st.workouts_completed_this_week < st.max_workouts_per_week)
      => /\ MaxFatigue(st.fatigue_scores) > st.fatigue_threshold
            => (st'.next_node = "recovery_worker" /\ calls' = calls)
         /\ (MaxFatigue(st.fatigue_scores) = st.fatigue_threshold
             /\ calls' = calls)
            => st'.next_node \in PersonaWorkers \cup {"qa_worker"} ]_vars

\* Scenario A: legs 0.85, threshold 0.8, 1 of 4 completed, a leg workout
\* requested, recovery decided
C2_Witness ==
  /\ stagesRun = << "supervisor" >>
  /\ st.fatigue_scores = [x \in {"legs"} |-> 85]
  /\ st.fatigue_threshold = 80
  /\ st.workouts_completed_this_week = 1
  /\ st.max_workouts_per_week = 4
  /\ st.messages = << "leg_workout" >>
  /\ st.next_node = "recovery_worker"
  /\ calls = {}

\* a leg workout requested with legs exactly at the threshold: the persona
\* worker is decided
C2_WitnessEqual ==
  /\ stagesRun = << "supervisor" >>
  /\ st.fatigue_scores = [x \in {"legs"} |-> 80]
  /\ st.fatigue_threshold = 80
  /\ st.workouts_completed_this_week < st.max_workouts_per_week
  /\ st.messages = << "leg_workout" >>
  /\ st.next_node \in PersonaWorkers

\* the run is interrupted after a persona worker, before finalize_workout
Paused ==
  ~running /\ pc = "finalize_workout"

\* the gate step of a run
GateStep ==
  pc = "pre_route" /\ running /\ stagesRun' # stagesRun

\* the finalize_workout step of a resumed run
FinalizeStep ==
  pc = "finalize_workout" /\ running /\ pc' # pc

\* the recovery_worker step of a run
RecoveryStep ==
  pc = "recovery_worker" /\ running /\ pc' # pc

\* C3: for every setting of the two stage flags, the gate dispatches a
\* persona worker only if, in the state left by the stages, the weekly counter
\* is below the maximum and no fatigue score exceeds the threshold; when the
\* supervisor chose a persona worker and a score exceeds the threshold at the
\* gate (counter below the maximum), the recovery worker is dispatched.
C3_DispatchSafety ==
  [][ GateStep
      => /\ pc' \in PersonaWorkers
            => /\ st.workouts_completed_this_week < st.max_workouts_per_week
               /\ MaxFatigue(st.fatigue_scores) <= st.fatigue_threshold
         /\ (st.next_node \in PersonaWorkers
             /\ st.workouts_completed_this_week < st.max_workouts_per_week
             /\ MaxFatigue(st.fatigue_scores) > st.fatigue_threshold)
            => pc' = "recovery_worker" ]_vars

\* the supervisor chose a persona worker on its fast path, the history
\* stage then pushed a score over the threshold and the gate dispatched the
\* recovery worker
C3_Witness ==
  /\ pc = "recovery_worker"
  /\ running
  /\ stagesRun[Len(stagesRun) - 1] = "history_analysis"
  /\ st.next_node \in PersonaWorkers
  /\ calls = {}
  /\ MaxFatigue(st.fatigue_scores) > st.fatigue_threshold

\* C4: in every paused state the current plan is set and is_working_out is
\* true, and is_working_out is true only between the worker's plan and the
\* end of finalize_workout.
C4_InterruptBeforeFinalize ==
  /\ Paused => (st.daily_workout # NoPlan /\ st.is_working_out)
  /\ st.is_working_out => pc = "finalize_workout"

\* C5: in every paused state fatigue, history and the weekly counter equal
\* their values at the moment the gate dispatched the worker.
C5_NothingCommittedBeforeFinalize ==
  Paused => Snapshot(st) = atDispatch

\* C6: finalize_workout with a current plan appends that plan to the history
\* (earlier entries unchanged) and leaves active_logs empty, the current plan
\* cleared and is_working_out false.
C6_FinalizePostcondition ==
  [][ (FinalizeStep /\ st.daily_workout # NoPlan)
      => /\ st'.workout_history = Append(st.workout_history, st.daily_workout)
         /\ st'.active_logs = <<>>
         /\ st'.daily_workout = NoPlan
         /\ ~st'.is_working_out ]_vars

\* C7: a session that completes leaves the weekly counter one above its
\* value at dispatch if its plan came from a persona worker and unchanged if
\* it is a recovery plan; the recovery worker never changes the counter.
C7_CounterAndPlanKind ==
  [][ /\ FinalizeStep
         => st'.workouts_completed_this_week =
              atDispatch.workouts_completed_this_week
                + (IF st.daily_workout \in PersonaPlans THEN 1 ELSE 0)
      /\ RecoveryStep
         => st'.workouts_completed_this_week =
              atDispatch.workouts_completed_this_week ]_vars

\* C8: a session whose persona worker returned the two-exercise "Legs" plan
\* and that is finalized with no logged set leaves the history one entry
\* longer, the counter one higher and the legs score at min(1.0, old + 0.5),
\* every other score unchanged, all relative to the state at dispatch.
C8_SessionNetEffect ==
  [][ (FinalizeStep /\ st.daily_workout = "strength_legs"
       /\ st.active_logs = <<>>)
      => /\ Len(st'.workout_history) = Len(atDispatch.workout_history) + 1
         /\ st'.workouts_completed_this_week =
              atDispatch.workouts_completed_this_week + 1
         /\ st'.fatigue_scores =
              Put(atDispatch.fatigue_scores, "legs",
                  Min(100, Get(atDispatch.fatigue_scores, "legs") + 50)) ]_vars

\* C9: resuming a paused session enters at finalize_workout with no stage
\* run and no external call made, and finalize_workout ends the run: the
\* stages of the resumed run are exactly finalize_workout.
C9_ResumeRunsFinalizeOnly ==
  [][ /\ (Paused /\ running' /\ runs' = runs)
         => (pc' = "finalize_workout" /\ stagesRun' = <<>> /\ calls' = {})
      /\ FinalizeStep
         => (stagesRun' = << "finalize_workout" >> /\ calls' = {}
             /\ pc' = "END" /\ ~running') ]_vars

\* a resumed run has ended after finalize_workout alone
C9_Witness ==
  /\ ~running
  /\ pc = "END"
  /\ stagesRun = << "finalize_workout" >>
  /\ calls = {}
  /\ st.daily_workout \in PersonaPlans
  /\ Len(st.workout_history) > Len(atDispatch.workout_history)

RunFailed ==
  ~running /\ pc = "pre_route"

\* C11: when the supervisor decided "qa_worker" and neither override applies
\* at the gate, the run does not fail: it goes on to the question worker and
\* to END, with no plan stored and the history as it was.
C11_QnaDispatchable ==
  [][ (GateStep /\ route_after_supervisor(st) = "qa_worker")
      => /\ ~RunFailed'
         /\ st'.daily_workout = NoPlan
         /\ st'.workout_history = st.workout_history ]_vars

\* C12: with a non-empty subscription, the selected_persona the supervisor
\* returns is a subscribed persona on every return path.
C12_PersonaSubscribed ==
  [][ (SupervisorStep /\ st.subscribed_personas # {})
      => InSeq(st'.selected_persona, OrEmpty(st.subscribed_personas)) ]_vars

\* C13: with a non-empty subscription, a persona worker the supervisor
\* returns is the worker of a subscribed persona and the worker of the
\* selected_persona returned with it.
C13_WorkerSubscribed ==
  [][ (SupervisorStep /\ st.subscribed_personas # {}
       /\ st'.next_node \in PersonaWorkers)
      => /\ st'.next_node \in allowed_workers(OrEmpty(st.subscribed_personas))
         /\ st'.next_node = persona_to_worker(st'.selected_persona) ]_vars


\* the caller resumes a paused thread: nothing but the scheduling changes
ResumeStep ==
  /\ ~running /\ running'
  /\ runs' = runs
  /\ st' = st

\* the caller resets the current workout
ResetStep ==
  /\ ~running
  /\ runs' = runs
  /\ st'.daily_workout = NoPlan
  /\ st'.active_logs = <<>>

\* a further run_workout call
RunStep ==
  /\ ~running /\ running'
  /\ runs' = runs + 1

\* C14 (as stated): in a paused state nothing but a resume or a reset takes the
\* session out of the pause or discards the pending plan; a further
\* run_workout call keeps the plan.
C14_PausedUntilResumeOrReset ==
  [][ (Paused /\ ~ResumeStep /\ ~ResetStep)
      => /\ Paused'
         /\ st'.daily_workout = st.daily_workout ]_vars

\* C14 (amended): a paused session is left by a resume, by a reset, or by a
\* further run_workout call, which discards the pending plan and restarts at
\* the entry node without finalize_workout: the history entry and the counter
\* the worker committed and the logged sets stay.  Every other caller
\* operation keeps the session paused with the same plan.
C14_PausedUntilResumeResetOrRun ==
  [][ Paused
      => \/ /\ Paused'
            /\ st'.daily_workout = st.daily_workout
         \/ ResumeStep
         \/ ResetStep
         \/ /\ RunStep
            /\ pc' = check_onboarding(st')
            /\ stagesRun' = <<>>
            /\ st'.daily_workout = NoPlan
            /\ st'.workout_history = st.workout_history
            /\ st'.workouts_completed_this_week = st.workouts_completed_this_week
            /\ st'.active_logs = st.active_logs ]_vars

\* a run restarted over a paused session: the plan is gone, one worker
\* increment and the logged set are still there, finalize_workout never ran
C14_Witness ==
  /\ running
  /\ pc = "supervisor"
  /\ stagesRun = <<>>
  /\ runs = 2
  /\ st.daily_workout = NoPlan
  /\ st.workouts_completed_this_week = 1
  /\ Len(st.workout_history) = 1
  /\ st.active_logs # <<>>


\* the worker of a run_workout call raises
WorkerFailStep ==
  /\ running /\ ~running'
  /\ pc \in PersonaWorkers \cup {"recovery_worker"}
  /\ pc' = pc
  /\ stagesRun # <<>>

\* C15: when the plan generator fails inside a worker, the stored state after
\* the failed run_workout call equals the stored state before the call: plan,
\* working flag, fatigue, history, counter and messages.
C15_FailureLeavesStoredState ==
  [][ (WorkerFailStep /\ atCall # {}) => Stored(st') \in atCall ]_vars


\* C16: whenever the stored record cannot be loaded, run_workout does not
\* fail: it deletes the record and runs on a fresh state built from the
\* caller's persona, fatigue and messages, with empty history and counter 0;
\* nothing of the old record is carried over.
C16_CorruptedRecordRepaired ==
  [][ (runs' = runs + 1 /\ record # "ok")
      => /\ running'
         /\ record' = "ok"
         /\ \E persona \in CallerPersonas, f \in CallerFatigue,
               msgs \in MessageLists :
              st' = fresh_state(persona, f, msgs) ]_vars


\* s is a prefix of t
IsPrefix(s, t) ==
  /\ Len(s) <= Len(t)
  /\ \A i \in 1..Len(s) : s[i] = t[i]

\* C17 (as stated): every step of every caller operation keeps the history
\* it found as a prefix of the history it leaves; the model has no explicit
\* reset of the history.
C17_HistoryAppendOnly ==
  [][ IsPrefix(st.workout_history, st'.workout_history) ]_vars

\* C17 (amended): the history a step finds is a prefix of the history it
\* leaves, except when run_workout repairs a checkpoint that cannot be
\* loaded: the record is deleted and the run starts from an empty history.
C17_HistoryAppendOnlyUnlessRepaired ==
  [][ \/ IsPrefix(st.workout_history, st'.workout_history)
      \/ /\ record = "incompatible"
         /\ record' = "ok"
         /\ runs' = runs + 1
         /\ st'.workout_history = <<>> ]_vars

\* a repaired run in progress after a history of at least one plan was lost
C17_Witness ==
  /\ running
  /\ pc = "supervisor"
  /\ runs = 2
  /\ deleted > 0
  /\ st.workout_history = <<>>


\* f"ex_{i}"
ExId(i) ==
  << "ex_", i >>

\* workout_utils.inject_exercise_ids on the item list of a plan
inject_exercise_ids(items) ==
  [i \in 1..Len(items) |-> [items[i] EXCEPT !.id = {ExId(i - 1)}]]

\* the items of a plan as the workers store them: workout.model_dump() of
\* the agent's result; the item schemas have no id field
stored_items(p) ==
  [i \in 1..Len(WorkoutDict(p).items) |->
     [name |-> WorkoutDict(p).items[i], id |-> {}]]

\* C18: the N items of the plan in state carry the ids ex_0 .. ex_{N-1} in
\* list order, from the moment the plan enters state until finalize_workout.
C18_StableItemIds ==
  st.daily_workout # NoPlan
    => stored_items(st.daily_workout)
         = inject_exercise_ids(stored_items(st.daily_workout))


\* a log_set call that changed the logs of the current plan
LogStep ==
  /\ ~running /\ ~running'
  /\ st.daily_workout # NoPlan
  /\ st'.daily_workout = st.daily_workout
  /\ st'.active_logs # st.active_logs
  /\ st'.active_logs # <<>>

\* the text names an item of the plan
NamesItem(name, p) ==
  \E i \in 1..Len(WorkoutDict(p).items) : SameName(name, WorkoutDict(p).items[i])

\* C19: a log_set whose reference is empty, an id outside the plan, or a name
\* of no item of the plan leaves the stored state unchanged: every entry a
\* log_set call adds to active_logs or changes names an item of the plan.
C19_InvalidReferenceRejected ==
  [][ LogStep
      => \A i \in 1..Len(st'.active_logs) :
           (i > Len(st.active_logs) \/ st'.active_logs[i] # st.active_logs[i])
             => NamesItem(st'.active_logs[i].exercise_name, st.daily_workout) ]_vars

\* C20: sets logged against two different items of the plan are recorded
\* against two distinct entries, also when the items have the same name: as
\* long as every item logged so far has its own entry, a set for a further
\* item adds an entry.
C20_DistinctItemsDistinctEntries ==
  [][ (LogStep /\ aimed' # aimed /\ Len(st.active_logs) = Cardinality(aimed))
      => Len(st'.active_logs) = Cardinality(aimed') ]_vars


\* C21: every set stored in active_logs has an rpe in 1..10 (a set is
\* recorded by its rpe); a log_set with an rpe outside the range mutates
\* nothing.
C21_RpeInRange ==
  \A i \in 1..Len(st.active_logs) :
    \A k \in 1..Len(st.active_logs[i].sets) :
      st.active_logs[i].sets[k] \in 1..10


\* the write of a log_set call
LogWriteStep ==
  /\ ~running /\ ~running'
  /\ Len(pending') < Len(pending)

\* C22: overlapping operations on one user leave the state some serial order
\* of them leaves; no logged set is lost: every log_set adds exactly one set
\* to the logs the store holds when it writes.
C22_NoLoggedSetLost ==
  [][ LogWriteStep
      => SetsLogged(st'.active_logs) = SetsLogged(st.active_logs) + 1 ]_vars


\* a reset_user_state call on a stored record
DeleteStep ==
  /\ ~running /\ ~running'
  /\ hasCheckpoint
  /\ runs' = runs
  /\ st # FreshState
  /\ st' = FreshState

\* C23: after a reset the store holds no record of the user, and the next
\* run_workout starts from the defaults: empty history, counter 0, no plan,
\* no logs, and the fatigue scores the caller passed.
C23_ResetIsFullDelete ==
  [][ /\ DeleteStep => ~hasCheckpoint'
      /\ (RunStep /\ ~hasCheckpoint)
           => /\ st'.workout_history = <<>>
              /\ st'.workouts_completed_this_week = 0
              /\ st'.daily_workout = NoPlan
              /\ st'.active_logs = <<>>
              /\ st'.fatigue_scores \in CallerFatigue ]_vars

\* a run started after a reset that removed a non-empty history
C23_Witness ==
  /\ running
  /\ pc = "supervisor"
  /\ stagesRun = <<>>
  /\ runs = 2
  /\ deleted > 0
  /\ st.workout_history = <<>>
  /\ st.workouts_completed_this_week = 0


\* a simulate_new_week call
WeekStep ==
  /\ ~running /\ ~running'
  /\ runs' = runs
  /\ st'.last_session_timestamp = now - WeekHours
  /\ st.last_session_timestamp # now - WeekHours

\* a step of the decay stage
DecayStep ==
  /\ pc = "decay"
  /\ pc' # "decay"

\* C24: simulate_new_week leaves counter 0 and a last session seven days in
\* the past; the run_workout that follows keeps that time of the last
\* session, and its decay stage decays the fatigue scores over the hours
\* since then, a week.
C24_DecayOverSimulatedWeek ==
  [][ /\ WeekStep => /\ st'.workouts_completed_this_week = 0
                     /\ st'.last_session_timestamp = now - WeekHours
      /\ (RunStep /\ st.last_session_timestamp = now - WeekHours)
           => st'.last_session_timestamp = now - WeekHours
      /\ DecayStep
           => st'.fatigue_scores =
                decay_scores(st.fatigue_scores,
                             now - st.last_session_timestamp) ]_vars


\* C25: every fatigue score of every state is between 0.0 and 1.0.
C25_FatigueBounded ==
  \A k \in DOMAIN st.fatigue_scores :
    /\ st.fatigue_scores[k] >= 0
    /\ st.fatigue_scores[k] <= 100


\* C26: every state has max_workouts_per_week >= 1 and a fatigue_threshold
\* between 0.0 and 1.0.
C26_SettingsInBounds ==
  /\ st.max_workouts_per_week >= 1
  /\ st.fatigue_threshold >= 0
  /\ st.fatigue_threshold <= 100


\* what the gate does with a decision of its path map when no override applies
Dispatched(next) ==
  IF next = "end" THEN "END" ELSE next

\* C27: with max_workouts_per_week missing from the state the supervisor and
\* the gate apply a weekly maximum of 4: at 4 or more completed workouts the
\* supervisor decides "end" without the external call and the gate dispatches
\* no worker, and below 4 the cap does not block; with a missing or empty
\* fatigue map the fatigue override does not apply: the fast path of the
\* supervisor does not choose the recovery worker and the gate dispatches the
\* decision it finds.
C27_SafeDefaults ==
  [][ /\ (SupervisorStep /\ "max_workouts_per_week" \in st.absent
          /\ st.workouts_completed_this_week >= 4)
           => (st'.next_node = "end" /\ calls' = calls)
      /\ (GateStep /\ "max_workouts_per_week" \in st.absent
          /\ st.workouts_completed_this_week >= 4)
           => (pc' = "END" /\ ~running')
      /\ (GateStep /\ "max_workouts_per_week" \in st.absent
          /\ st.workouts_completed_this_week < 4
          /\ st.next_node \in PersonaWorkers
          /\ MaxFatigue(st.fatigue_scores) <= st.fatigue_threshold)
           => pc' = st.next_node
      /\ (SupervisorStep /\ st.fatigue_scores = EmptyMap
          /\ ~frequency_block(st) /\ ~needs_decision_call(st))
           => st'.next_node # "recovery_worker"
      /\ (GateStep /\ st.fatigue_scores = EmptyMap
          /\ ~frequency_block(st) /\ st.next_node \in RouteTargets)
           => pc' = Dispatched(st.next_node) ]_vars

\* the gate has ended a run on the default maximum, with no fatigue map and
\* no external call, for a user who asked for a workout
C27_Witness ==
  /\ pc = "END"
  /\ ~running
  /\ st.absent = {"max_workouts_per_week"}
  /\ st.workouts_completed_this_week = 4
  /\ st.fatigue_scores = EmptyMap
  /\ st.next_node = "end"
  /\ st.messages # <<>>
  /\ calls = {}

\* the gate has dispatched a persona worker below the default maximum from a
\* state that had neither the maximum nor a fatigue map
C27_WitnessBelow ==
  /\ pc \in PersonaWorkers
  /\ "max_workouts_per_week" \in st.absent
  /\ st.workouts_completed_this_week = 3
  /\ st.fatigue_scores = EmptyMap


\* a step of the recommender stage
RecommenderStep ==
  pc = "recommender" /\ running /\ pc' # "recommender"

HasKeyword(user_message) ==
  ContainsAny(Strip(Lower(user_message)),
              COMPLAINT_KEYWORDS \cup PERSONA_SWITCH_KEYWORDS)

\* the user messages with a complaint or persona-switch keyword
KeywordMessages ==
  { m \in UserMessages : HasKeyword(Content(m)) }

\* the user messages is_question takes for a question
QuestionMessages ==
  { m \in UserMessages : is_question(Content(m)) }

\* the user messages needs_llm_reasoning sends to the external decision
ReasoningMessages ==
  { m \in UserMessages : needs_llm_reasoning(Content(m)) }

\* C29: no message is both a question (is_question) and in need of the
\* external decision (needs_llm_reasoning), and every message with a
\* complaint or persona-switch keyword is of the second kind; when no safety
\* override applies and the last user message has such a keyword, the
\* supervisor makes the external decision call, also when the message ends in
\* "?" or opens with a question word.
C29_KeywordPriority ==
  [][ /\ QuestionMessages \cap ReasoningMessages = {}
      /\ KeywordMessages \subseteq ReasoningMessages
      /\ (SupervisorStep
          /\ ~frequency_block(st) /\ ~fatigue_override(st)
          /\ st.messages # <<>>
          /\ st.messages[Len(st.messages)] \in KeywordMessages)
           => /\ calls' = calls \cup {"supervisor_agent"}
              /\ calls' # calls ]_vars

\* the external decision was called for a persona switch phrased as a question
C29_Witness ==
  /\ stagesRun = << "supervisor" >>
  /\ st.messages = << "switch_question" >>
  /\ "switch_question" \in KeywordMessages
  /\ calls = {"supervisor_agent"}
  /\ st.next_node = "yoga_worker"

\* the same for a complaint that opens with a question word
C29_WitnessStarter ==
  /\ stagesRun = << "supervisor" >>
  /\ st.messages = << "complaint_starter" >>
  /\ calls = {"supervisor_agent"}


\* the user messages with no keyword that are no question (the empty ones
\* among them)
FastMessages ==
  UserMessages \ (KeywordMessages \cup QuestionMessages)

\* no safety override applies and the conversation is empty or ends with a
\* message of the fast path
FastPath(s) ==
  /\ ~frequency_block(s)
  /\ ~fatigue_override(s)
  /\ \/ s.messages = <<>>
     \/ s.messages[Len(s.messages)] \in FastMessages

\* C30: on the fast path the supervisor makes no external call and, for a
\* user with subscribed personas, returns the worker of selected_persona if
\* that persona is subscribed and the worker of the first subscribed persona
\* otherwise.
C30_FastPathChoice ==
  [][ (SupervisorStep /\ FastPath(st))
      => /\ calls' = calls
         /\ OrEmpty(st.subscribed_personas) # <<>>
              => st'.next_node =
                   IF InSeq(st.selected_persona, OrEmpty(st.subscribed_personas))
                   THEN persona_to_worker(st.selected_persona)
                   ELSE persona_to_worker(OrEmpty(st.subscribed_personas)[1]) ]_vars

\* the fast path has chosen the worker of the selected persona, which is
\* subscribed but not the first subscription
C30_Witness ==
  /\ stagesRun = << "supervisor" >>
  /\ st.messages = << "leg_workout" >>
  /\ "leg_workout" \in FastMessages
  /\ st.selected_persona = "hiit"
  /\ st.subscribed_personas = { << "yoga", "hiit" >> }
  /\ st.next_node = "hiit_worker"
  /\ calls = {}

\* the fast path has fallen back to the first subscribed persona
C30_WitnessFirst ==
  /\ stagesRun = << "supervisor" >>
  /\ st.messages = << "blank" >>
  /\ st.subscribed_personas = { << "yoga", "hiit" >> }
  /\ st.selected_persona = "yoga"
  /\ st.next_node = "yoga_worker"
  /\ atDispatch.fatigue_scores = EmptyMap
  /\ calls = {}


\* the mean rpe of a log, in hundredths: of its sets, or the stored average
MeanRpe(log) ==
  IF log.sets = <<>> THEN log.average_rpe
  ELSE (100 * SumSeq(log.sets)) \div Len(log.sets)

\* the increment of a log by the thresholds 8 and 5 on its mean rpe
\* (the mean is >= 8 exactly when its hundredths, rounded down, are >= 800)
DeltaOf(log) ==
  IF MeanRpe(log) >= 800 THEN 60
  ELSE IF MeanRpe(log) >= 500 THEN 40
  ELSE 20

\* the sum of the increments of the logs of muscle group g
RECURSIVE DeltaSum(_, _)
DeltaSum(logs, g) ==
  IF logs = <<>> THEN 0
  ELSE (IF Lower(Strip(Head(logs).muscle_group)) = g
        THEN DeltaOf(Head(logs)) ELSE 0)
       + DeltaSum(Tail(logs), g)

\* the muscle groups the logs name
LoggedGroups(logs) ==
  { Lower(Strip(logs[i].muscle_group)) : i \in 1..Len(logs) } \ { <<>> }

\* C31: finalize_workout with logs adds to the fatigue of the muscle group of
\* every log 0.6 if the mean rpe of the log is >= 8, 0.4 if it is >= 5 and
\* below 8, 0.2 if it is below 5, capped at 1.0 (the mean of the sets, or the
\* stored average of a log without sets); groups with no log keep their value
\* and no value exceeds 1.0.
C31_RpeUpdate ==
  [][ (FinalizeStep /\ st.daily_workout # NoPlan /\ st.active_logs # <<>>)
      => /\ DOMAIN st'.fatigue_scores =
              DOMAIN st.fatigue_scores
                \cup { GroupKey(g) : g \in LoggedGroups(st.active_logs) }
         /\ \A g \in LoggedGroups(st.active_logs) :
              st'.fatigue_scores[GroupKey(g)] =
                Min(100, Get(st.fatigue_scores, GroupKey(g))
                           + DeltaSum(st.active_logs, g))
         /\ \A k \in DOMAIN st.fatigue_scores :
              k \notin { GroupKey(g) : g \in LoggedGroups(st.active_logs) }
                => st'.fatigue_scores[k] = st.fatigue_scores[k]
         /\ \A k \in DOMAIN st'.fatigue_scores :
              st'.fatigue_scores[k] <= 100 ]_vars

\* a finalized session with a log of mean rpe 7.5 on legs (from 0.3 to 0.7),
\* a log of stored average 8.0 on push (new, 0.6) and no other key
C31_Witness ==
  /\ pc = "END"
  /\ stagesRun = << "finalize_workout" >>
  /\ atDispatch.fatigue_scores = [x \in {"legs"} |-> 30]
  /\ st.fatigue_scores = [x \in {"legs", "push"} |-> IF x = "legs" THEN 70 ELSE 60]
  /\ st.daily_workout = "strength_legs"


\* the precedence order of the focus tags
Precedence ==
  << "legs", "push", "pull", "spine", "hips", "shoulders", "cardio", "cns",
     "coordination", "speed", "endurance" >>

\* the focus tags the focus fields of a plan name
FocusTags(p) ==
  LET workout == WorkoutDict(p)
      keys == focus_keys(Lower(workout.focus_area), Lower(workout.focus_system),
                         Lower(workout.focus_attribute), {<<"s","p","i","n","e">>})
  IN { keys[i] : i \in 1..Len(keys) }

\* the first tag of a non-empty set of tags in the precedence order
FirstTag(tags) ==
  Precedence[CHOOSE i \in 1..Len(Precedence) :
               /\ Precedence[i] \in tags
               /\ \A j \in 1..(i - 1) : Precedence[j] \notin tags]

\* the fatigue map changed by 0.5, capped at 1.0, at key k and nowhere else
OnlyKeyRaised(old, new, k) ==
  /\ DOMAIN new = DOMAIN old \cup {k}
  /\ new[k] = Min(100, Get(old, k) + 50)
  /\ \A x \in DOMAIN old : x # k => new[x] = old[x]

\* a finalize_workout step on a plan with no logs
DefaultStep ==
  FinalizeStep /\ st.daily_workout # NoPlan /\ st.active_logs = <<>>

\* C32 as stated: every plan finalized with no logs has a focus tag, and the
\* first of its tags in the precedence order is the one key that is raised by
\* 0.5 (capped at 1.0); all other keys are unchanged.
C32_DefaultUpdate ==
  [][ DefaultStep
      => /\ FocusTags(st.daily_workout) # {}
         /\ OnlyKeyRaised(st.fatigue_scores, st'.fatigue_scores,
                          FirstTag(FocusTags(st.daily_workout))) ]_vars

\* the key the code falls back to for a plan whose focus fields name no tag
FallbackKey(p) ==
  LET workout == WorkoutDict(p) IN
    IF workout.focus_area # <<>>
    THEN IF Contains(Lower(workout.focus_area), <<"l","e","g">>) THEN "legs"
         ELSE IF Contains(Lower(workout.focus_area), <<"p","u","s","h">>)
         THEN "push" ELSE "pull"
    ELSE IF workout.focus_system # <<>> THEN "cardio"
    ELSE "coordination"

\* C32 amended: a plan finalized with no logs raises by 0.5 (capped at 1.0)
\* the first of its focus tags in the precedence order and no other key; a
\* plan whose focus fields name no tag raises the fallback key instead (pull
\* for a focus area without "leg" or "push").
C32_DefaultUpdateOrFallback ==
  [][ DefaultStep
      => IF FocusTags(st.daily_workout) # {}
         THEN OnlyKeyRaised(st.fatigue_scores, st'.fatigue_scores,
                            FirstTag(FocusTags(st.daily_workout)))
         ELSE OnlyKeyRaised(st.fatigue_scores, st'.fatigue_scores,
                            FallbackKey(st.daily_workout)) ]_vars

\* the "Hips and spine" plan finalized with no logs has raised spine, the
\* first of its two tags, from 0.1 to 0.6 and left hips out
C32_Witness ==
  /\ pc = "END"
  /\ stagesRun = << "finalize_workout" >>
  /\ st.workout_history = << "yoga_hips" >>
  /\ atDispatch.fatigue_scores =
       [x \in {"pull", "spine", "cardio"} |-> IF x = "pull" THEN 55 ELSE 10]
  /\ st.fatigue_scores =
       [x \in {"pull", "spine", "cardio"} |->
          IF x = "pull" THEN 55 ELSE IF x = "spine" THEN 60 ELSE 10]

\* the "Full Body" plan finalized with no logs has raised pull
C32_WitnessFallback ==
  /\ pc = "END"
  /\ st.workout_history = << "strength_full" >>
  /\ atDispatch.fatigue_scores = EmptyMap
  /\ st.fatigue_scores = [x \in {"pull"} |-> 50]


\* hours since the last session
Elapsed(s) ==
  now - s.last_session_timestamp

\* |100 * new - percent * old| <= 100: new is percent/100 of old within 0.01
About(new, old, percent) ==
  /\ 100 * new - percent * old <= 100
  /\ percent * old - 100 * new <= 100

\* C33: decay leaves every fatigue value between 0 and its old value, lower
\* (or equal) for one more hour elapsed, unchanged at 0 hours, and at about
\* 0.48 of the old value after 24 hours, 0.23 after 48 and 0.11 after 72.
C33_Decay ==
  [][ DecayStep
      => /\ DOMAIN st'.fatigue_scores = DOMAIN st.fatigue_scores
         /\ \A k \in DOMAIN st.fatigue_scores :
              /\ st'.fatigue_scores[k] >= 0
              /\ st'.fatigue_scores[k] <= st.fatigue_scores[k]
              /\ decay_scores(st.fatigue_scores, Elapsed(st) + 1)[k]
                   <= st'.fatigue_scores[k]
              /\ Elapsed(st) = 0
                   => st'.fatigue_scores[k] = st.fatigue_scores[k]
              /\ Elapsed(st) = 24
                   => About(st'.fatigue_scores[k], st.fatigue_scores[k], 48)
              /\ Elapsed(st) = 48
                   => About(st'.fatigue_scores[k], st.fatigue_scores[k], 23)
              /\ Elapsed(st) = 72
                   => About(st'.fatigue_scores[k], st.fatigue_scores[k], 11) ]_vars

\* decay over 24 hours has taken legs from 1.0 to 0.48 and cns from 0.5 to 0.24
C33_Witness ==
  /\ stagesRun = << "supervisor", "decay" >>
  /\ atDispatch.fatigue_scores =
       [x \in {"legs", "cns"} |-> IF x = "legs" THEN 100 ELSE 50]
  /\ st.fatigue_scores =
       [x \in {"legs", "cns"} |-> IF x = "legs" THEN 48 ELSE 24]
  /\ st.last_session_timestamp = now


RestStep ==
  ~running /\ st' # st

\* C34: a rest day takes every fatigue value to 0.7 of it (to the hundredth
\* below), never raising one, sets the time of the last session to now, and
\* leaves history, weekly counter, plan and logs as they were.
C34_RestDay ==
  [][ RestStep
      => /\ DOMAIN st'.fatigue_scores = DOMAIN st.fatigue_scores
         /\ \A g \in DOMAIN st.fatigue_scores :
              /\ 100 * st'.fatigue_scores[g] <= 70 * st.fatigue_scores[g]
              /\ 70 * st.fatigue_scores[g] < 100 * (st'.fatigue_scores[g] + 1)
              /\ st'.fatigue_scores[g] <= st.fatigue_scores[g]
         /\ st'.last_session_timestamp = now
         /\ st'.workout_history = st.workout_history
         /\ st'.workouts_completed_this_week = st.workouts_completed_this_week
         /\ st'.daily_workout = st.daily_workout
         /\ st'.active_logs = st.active_logs ]_vars

\* a rest day logged a day after a session, on a paused thread with a plan,
\* a log and a history, has taken legs from 1.0 to 0.7 and cns from 0.5 to 0.35
C34_Witness ==
  /\ atDispatch.fatigue_scores =
       [x \in {"legs", "cns"} |-> IF x = "legs" THEN 100 ELSE 50]
  /\ st.fatigue_scores =
       [x \in {"legs", "cns"} |-> IF x = "legs" THEN 70 ELSE 35]
  /\ st.last_session_timestamp = now
  /\ pc = "finalize_workout"
  /\ st.daily_workout = "strength_full"
  /\ st.active_logs # <<>>
  /\ st.workout_history # <<>>


\* C35: a run whose stored fatigue was above the threshold and has decayed
\* to or below it is not sent to the recovery worker by the fatigue
\* override: the gate dispatches to recovery_worker only when the external
\* decision was asked.
C35_DecayBeforeRouting ==
  [][ ( /\ GateStep
        /\ \E i \in 1..Len(stagesRun) : stagesRun[i] = "decay"
        /\ MaxFatigue(atDispatch.fatigue_scores) > st.fatigue_threshold
        /\ MaxFatigue(st.fatigue_scores) <= st.fatigue_threshold )
      => ( pc' = "recovery_worker" => "supervisor_agent" \in calls ) ]_vars


\* the stored state after supervisor_node has acted on decision d
AfterDecision(s, d) ==
  LET r == supervisor_node(s, d) IN
    [s EXCEPT !.next_node = r.next_node,
              !.selected_persona = r.selected_persona,
              !.fatigue_scores = r.fatigue_scores,
              !.absent = @ \ {"fatigue_scores"}]

\* C36: when the supervisor has asked the external decision and the decision
\* it acted on targets recovery_worker or end, the next_node it stores is
\* that target, whatever persona the decision names.
C36_RecoveryAllowed ==
  [][ ( SupervisorStep /\ needs_decision_call(st) )
      => \A d \in Decisions :
           ( d.next_node \in {"recovery_worker", "end"}
             /\ st' = AfterDecision(st, d) )
           => st'.next_node = d.next_node ]_vars


\* C37: the weekly counter of the stored state never exceeds the weekly
\* maximum of the stored state.
C37_WeeklyCap ==
  hasCheckpoint
    => st.workouts_completed_this_week <= st.max_workouts_per_week


\* the thread is idle: no run in progress and no node pending
Idle ==
  ~running /\ pc = "END"

\* C38: a set is logged only while the thread is paused after a worker, and
\* every idle state has empty active_logs.
C38_LoggingOnlyWhilePaused ==
  [][ /\ LogStep => Paused
      /\ (hasCheckpoint' /\ Idle') => st'.active_logs = <<>> ]_vars


\* C39: a request that starts on an idle thread whose last run ended with
\* finalize_workout gives the supervisor the fatigue map that run stored.
C39_CommittedFatigueSurvives ==
  [][ ( /\ RunStep
        /\ hasCheckpoint
        /\ Idle
        /\ stagesRun # <<>>
        /\ stagesRun[Len(stagesRun)] = "finalize_workout" )
      => st'.fatigue_scores = st.fatigue_scores ]_vars


\* no stage occurs twice in the stages of the run
EachStageOnce ==
  \A i, j \in 1..Len(stagesRun) : stagesRun[i] = stagesRun[j] => i = j

\* the nodes of the graph a run can be at
RunNodes ==
  {"recommender", "supervisor", "decay", "history_analysis", "pre_route",
   "recovery_worker"} \cup PersonaWorkers

\* C40: a run from the entry of the graph runs each stage at most once (so
\* it has at most as many steps as there are stages), has a node to run as
\* long as it is running, and when it has stopped it is paused after a
\* worker or idle at END.
C40_RunTerminates ==
  /\ EachStageOnce
  /\ running => pc \in RunNodes
  /\ ~running => (Paused \/ Idle)

====
